---- MODULE Spec2Model ----
(***************************************************************************)
(* CodeMap: the dependency graph (codemap/analyzer/graph.py), the impact   *)
(* analyzer (codemap/analyzer/impact.py), the symbol registry              *)
(* (codemap/analyzer/symbols.py), the CODE_MAP.json generation, validation *)
(* and persistence (codemap/output/schemas.py, codemap/output/code_map.py) *)
(* and the job manager of the service (codemap/api/jobs.py).               *)
(*                                                                         *)
(* The graph is the networkx DiGraph held in DependencyGraph._graph: a set *)
(* of node names and the edges in the order they were created, which is    *)
(* the order in which networkx iterates successors and predecessors.  The  *)
(* attribute dictionaries of the nodes (kind, location, docstring) are     *)
(* read by no operation modelled here and are not part of the state.       *)
(***************************************************************************)
EXTENDS Integers, Sequences, FiniteSets, TLC

\* Bounds of the model.
MaxAttrEdges == 2      \* edges built under Spec (every kind and location)
MaxEdges == 4          \* edges built under QuerySpec (default kind, no location)
MaxDepth == 2          \* largest depth argument of a query
MaxImpactEdges == 2    \* edges built under ImpactSpec
MaxSymbols == 2        \* changed symbols handed to analyze_impact
MaxTransitive == 16    \* largest transitive count handed to the risk score
MaxAdds == 3           \* add calls made on a registry
MaxEntries == 2        \* entries of the symbols and the dependencies list of a document
MaxDeepEdges == 5      \* edges built under DeepSpec (four names, no self-loop)
MaxRegistered == 2     \* add calls made on the registry of a round trip

\* Python's None and an optional value: << >> is None, <<x>> is the value x.
None == << >>
Some(x) == << x >>

\* Qualified names, in the order Python's string comparison gives them.
NameOrder == << "", "a", "b", "c", "d" >>
Names == {"a", "b", "c"}
AttrNames == {"a", "b"}     \* the names used under Spec
Kinds == {"calls", "imports"}
Locations == {"f.py:1", "f.py:2"}
\* location: str | None; the empty string is as falsy as None.
LocationArgs == {None, Some("")} \cup {Some(l) : l \in Locations}
DepthArgs == {None} \cup {Some(d) : d \in (-1)..MaxDepth}

VARIABLES
    graph,     \* DependencyGraph._graph: [nodes, edges]
    ret,       \* the last call made and what it returned
    registry,  \* SymbolRegistry: [_by_name, _by_location]
    added,     \* the symbols handed to SymbolRegistry.add so far, in order
    disk,      \* the file system: [dirs, files]
    jobs,      \* JobManager._jobs: job id -> Job
    running,   \* the job id of the run_job call that is past line 180, or None
    results    \* the files under _results_dir / job id, None without the directory

vars == << graph, ret, registry, added, disk, jobs, running, results >>

Range(s) == {s[i] : i \in 1..Len(s)}

\* sorted(list(S)) for a set S of names.
RECURSIVE SortedFrom(_, _)
SortedFrom(S, i) ==
    IF i > Len(NameOrder) THEN << >>
    ELSE (IF NameOrder[i] \in S THEN << NameOrder[i] >> ELSE << >>)
         \o SortedFrom(S, i + 1)
sorted(S) == SortedFrom(S, 1)

----------------------------------------------------------------------------
\* networkx.DiGraph, as far as DependencyGraph uses it.

EmptyGraph == [nodes |-> {}, edges |-> << >>]

has_node(g, n) == n \in g.nodes

has_edge(g, u, v) == \E i \in 1..Len(g.edges) : g.edges[i].from = u /\ g.edges[i].to = v

EdgeIndex(g, u, v) == CHOOSE i \in 1..Len(g.edges) : g.edges[i].from = u /\ g.edges[i].to = v

\* DiGraph.add_node: a no-op on the node set when the node exists.
nx_add_node(g, n) == [g EXCEPT !.nodes = @ \cup {n}]

\* DiGraph.add_edge: creates the endpoints, and on an existing edge only
\* updates its attributes in place.
nx_add_edge(g, u, v, kind, locations) ==
    LET e == [from |-> u, to |-> v, kind |-> kind, locations |-> locations]
    IN  IF has_edge(g, u, v)
        THEN [nodes |-> g.nodes \cup {u, v},
              edges |-> [g.edges EXCEPT ![EdgeIndex(g, u, v)] = e]]
        ELSE [nodes |-> g.nodes \cup {u, v}, edges |-> Append(g.edges, e)]

\* predecessors mistaken for successors: the traversal walks the wrong way.
predecessors_forward(g, n) ==
    LET pick[i \in 1..(Len(g.edges) + 1)] ==
            IF i > Len(g.edges) THEN << >>
            ELSE (IF g.edges[i].from = n THEN << g.edges[i].to >> ELSE << >>) \o pick[i + 1]
    IN  pick[1]

\* DiGraph.successors / predecessors: adjacency in insertion order.
RECURSIVE successors_from(_, _, _)
successors_from(g, n, i) ==
    IF i > Len(g.edges) THEN << >>
    ELSE (IF g.edges[i].from = n THEN << g.edges[i].to >> ELSE << >>)
         \o successors_from(g, n, i + 1)
successors(g, n) == successors_from(g, n, 1)

RECURSIVE predecessors_from(_, _, _)
predecessors_from(g, n, i) ==
    IF i > Len(g.edges) THEN << >>
    ELSE (IF g.edges[i].to = n THEN << g.edges[i].from >> ELSE << >>)
         \o predecessors_from(g, n, i + 1)
predecessors(g, n) == predecessors_from(g, n, 1)

----------------------------------------------------------------------------
\* DependencyGraph: construction.

Truthy(location) == location # None /\ location[1] # ""

add_symbol(g, qualified_name) == nx_add_node(g, qualified_name)

\* add_dependency without the "location not in locations" test of line 64.
add_dependency_no_dedup(g, from_sym, to_sym, kind, location) ==
    LET g1 == nx_add_node(nx_add_node(g, from_sym), to_sym)
    IN  IF has_edge(g1, from_sym, to_sym)
        THEN LET i == EdgeIndex(g1, from_sym, to_sym)
             IN  [g1 EXCEPT !.edges[i].locations =
                     IF Truthy(location) THEN Append(@, location[1]) ELSE @]
        ELSE nx_add_edge(g1, from_sym, to_sym, kind,
                         IF Truthy(location) THEN << location[1] >> ELSE << >>)

\* add_dependency that records the edge without registering its endpoints.
add_dependency_no_nodes(g, from_sym, to_sym, kind, location) ==
    IF has_edge(g, from_sym, to_sym)
    THEN LET i == EdgeIndex(g, from_sym, to_sym)
             locations == g.edges[i].locations
         IN  [g EXCEPT !.edges[i].locations =
                 IF Truthy(location) /\ location[1] \notin Range(locations)
                 THEN Append(locations, location[1])
                 ELSE locations]
    ELSE [g EXCEPT !.edges = Append(@,
             [from |-> from_sym, to |-> to_sym, kind |-> kind,
              locations |-> IF Truthy(location) THEN << location[1] >> ELSE << >>])]

\* add_dependency that also overwrites the kind of an edge that exists.
add_dependency_kind_updated(g, from_sym, to_sym, kind, location) ==
    LET g1 == IF ~has_node(g, from_sym) THEN nx_add_node(g, from_sym) ELSE g
        g2 == IF ~has_node(g1, to_sym) THEN nx_add_node(g1, to_sym) ELSE g1
    IN  IF has_edge(g2, from_sym, to_sym)
        THEN LET i == EdgeIndex(g2, from_sym, to_sym)
                 locations == g2.edges[i].locations
                 merged == IF Truthy(location) /\ location[1] \notin Range(locations)
                           THEN Append(locations, location[1])
                           ELSE locations
             IN  [g2 EXCEPT !.edges[i].locations = merged, !.edges[i].kind = kind]
        ELSE nx_add_edge(g2, from_sym, to_sym, kind,
                         IF Truthy(location) THEN << location[1] >> ELSE << >>)

add_dependency(g, from_sym, to_sym, kind, location) ==
    LET g1 == IF ~has_node(g, from_sym) THEN nx_add_node(g, from_sym) ELSE g
        g2 == IF ~has_node(g1, to_sym) THEN nx_add_node(g1, to_sym) ELSE g1
    IN  IF has_edge(g2, from_sym, to_sym)
        THEN LET i == EdgeIndex(g2, from_sym, to_sym)
                 locations == g2.edges[i].locations
                 merged == IF Truthy(location) /\ location[1] \notin Range(locations)
                           THEN Append(locations, location[1])
                           ELSE locations
             IN  [g2 EXCEPT !.edges[i].locations = merged]
        ELSE nx_add_edge(g2, from_sym, to_sym, kind,
                         IF Truthy(location) THEN << location[1] >> ELSE << >>)

\* A value of a loosely typed map: a string or something else.
Str(s) == [type |-> "str", val |-> s]
NotStr == [type |-> "int", val |-> 0]
DictGet(d, key, default) == IF key \in DOMAIN d THEN d[key] ELSE default

\* symbol_data as CODE_MAP.json gives it: with a qualified name, without the
\* key, or with a qualified_name that is not a string.
SymbolDataArgs ==
    {[qualified_name |-> Str(n), kind |-> Str("function")] : n \in AttrNames}
    \cup {[kind |-> Str("function")]}
    \cup {[qualified_name |-> NotStr, kind |-> Str("function")]}

add_symbol_data(g, symbol_data) ==
    LET qualified_name == DictGet(symbol_data, "qualified_name", Str(""))
    IN  IF qualified_name.type = "str" THEN nx_add_node(g, qualified_name.val) ELSE g

----------------------------------------------------------------------------
\* DependencyGraph: traversal.
\*
\* The state of one traversal is what the nested traverse closes over, the
\* visited set and the result set, with the number of traverse calls made so
\* far.  A traversal that makes more calls than CallBudget is cut short and
\* marked: the code itself has no such limit, and a marked traversal stands
\* for one that does not come back.

CallBudget(g) == Len(g.edges) + 1

NewTraversal == [visited |-> {}, found |-> {}, calls |-> 0, cut |-> FALSE]

\* get_callers.traverse without the visited test of lines 121-122.
RECURSIVE callers_traverse_unvisited(_, _, _, _, _), callers_loop_unvisited(_, _, _, _, _, _)
callers_traverse_unvisited(g, depth, node, current_depth, st) ==
    LET st0 == [st EXCEPT !.calls = @ + 1]
    IN  IF st0.calls > CallBudget(g) THEN [st0 EXCEPT !.cut = TRUE]
        ELSE IF depth # None /\ current_depth > depth[1] THEN st0
        ELSE callers_loop_unvisited(g, depth, predecessors(g, node), 1, current_depth, st0)
callers_loop_unvisited(g, depth, preds, i, current_depth, st) ==
    IF i > Len(preds) THEN st
    ELSE callers_loop_unvisited(g, depth, preds, i + 1, current_depth,
             callers_traverse_unvisited(g, depth, preds[i], current_depth + 1,
                 [st EXCEPT !.found = @ \cup {preds[i]}]))

\* get_callers.traverse with the cutoff of get_callees (>= for >).
RECURSIVE callers_traverse_ge(_, _, _, _, _), callers_loop_ge(_, _, _, _, _, _)
callers_traverse_ge(g, depth, node, current_depth, st) ==
    LET st0 == [st EXCEPT !.calls = @ + 1]
    IN  IF st0.calls > CallBudget(g) THEN [st0 EXCEPT !.cut = TRUE]
        ELSE IF node \in st0.visited THEN st0
        ELSE LET st1 == [st0 EXCEPT !.visited = @ \cup {node}]
             IN  IF depth # None /\ current_depth >= depth[1] THEN st1
                 ELSE callers_loop_ge(g, depth, predecessors(g, node), 1,
                                      current_depth, st1)
callers_loop_ge(g, depth, preds, i, current_depth, st) ==
    IF i > Len(preds) THEN st
    ELSE callers_loop_ge(g, depth, preds, i + 1, current_depth,
             callers_traverse_ge(g, depth, preds[i], current_depth + 1,
                 [st EXCEPT !.found = @ \cup {preds[i]}]))

\* get_callers.traverse(node, current_depth), and its for loop from the i-th
\* predecessor on.
RECURSIVE callers_traverse(_, _, _, _, _), callers_loop(_, _, _, _, _, _)
callers_traverse(g, depth, node, current_depth, st) ==
    LET st0 == [st EXCEPT !.calls = @ + 1]
    IN  IF st0.calls > CallBudget(g) THEN [st0 EXCEPT !.cut = TRUE]
        ELSE IF node \in st0.visited THEN st0
        ELSE LET st1 == [st0 EXCEPT !.visited = @ \cup {node}]
             IN  IF depth # None /\ current_depth > depth[1] THEN st1
                 ELSE callers_loop(g, depth, predecessors(g, node), 1,
                                   current_depth, st1)
callers_loop(g, depth, preds, i, current_depth, st) ==
    IF i > Len(preds) THEN st
    ELSE callers_loop(g, depth, preds, i + 1, current_depth,
             callers_traverse(g, depth, preds[i], current_depth + 1,
                 [st EXCEPT !.found = @ \cup {preds[i]}]))

\* get_callees.traverse with the cutoff of get_callers (> for >=).
RECURSIVE callees_traverse_gt(_, _, _, _, _), callees_loop_gt(_, _, _, _, _, _)
callees_traverse_gt(g, depth, node, current_depth, st) ==
    LET st0 == [st EXCEPT !.calls = @ + 1]
    IN  IF st0.calls > CallBudget(g) THEN [st0 EXCEPT !.cut = TRUE]
        ELSE IF node \in st0.visited THEN st0
        ELSE LET st1 == [st0 EXCEPT !.visited = @ \cup {node}]
             IN  IF depth # None /\ current_depth > depth[1] THEN st1
                 ELSE callees_loop_gt(g, depth, successors(g, node), 1,
                                      current_depth, st1)
callees_loop_gt(g, depth, succs, i, current_depth, st) ==
    IF i > Len(succs) THEN st
    ELSE callees_loop_gt(g, depth, succs, i + 1, current_depth,
             callees_traverse_gt(g, depth, succs[i], current_depth + 1,
                 [st EXCEPT !.found = @ \cup {succs[i]}]))

\* get_callees.traverse(node, current_depth), and its for loop from the i-th
\* successor on.
RECURSIVE callees_traverse(_, _, _, _, _), callees_loop(_, _, _, _, _, _)
callees_traverse(g, depth, node, current_depth, st) ==
    LET st0 == [st EXCEPT !.calls = @ + 1]
    IN  IF st0.calls > CallBudget(g) THEN [st0 EXCEPT !.cut = TRUE]
        ELSE IF node \in st0.visited THEN st0
        ELSE LET st1 == [st0 EXCEPT !.visited = @ \cup {node}]
             IN  IF depth # None /\ current_depth >= depth[1] THEN st1
                 ELSE callees_loop(g, depth, successors(g, node), 1,
                                   current_depth, st1)
callees_loop(g, depth, succs, i, current_depth, st) ==
    IF i > Len(succs) THEN st
    ELSE callees_loop(g, depth, succs, i + 1, current_depth,
             callees_traverse(g, depth, succs[i], current_depth + 1,
                 [st EXCEPT !.found = @ \cup {succs[i]}]))

\* The traversal a query runs: none when the symbol is not a node.
callers_run(g, symbol, depth) ==
    IF ~has_node(g, symbol) THEN NewTraversal
    ELSE callers_traverse(g, depth, symbol, 0, NewTraversal)

callees_run(g, symbol, depth) ==
    IF ~has_node(g, symbol) THEN NewTraversal
    ELSE callees_traverse(g, depth, symbol, 0, NewTraversal)

get_callers(g, symbol, depth) == sorted(callers_run(g, symbol, depth).found)

get_callees(g, symbol, depth) == sorted(callees_run(g, symbol, depth).found)

\* Python's order on lists of names: x < y.
Rank(n) == CHOOSE i \in 1..Len(NameOrder) : NameOrder[i] = n

LexLess(x, y) ==
    \/ Len(x) < Len(y) /\ \A i \in 1..Len(x) : x[i] = y[i]
    \/ \E i \in 1..Len(x) :
          /\ i <= Len(y)
          /\ \A j \in 1..(i - 1) : x[j] = y[j]
          /\ Rank(x[i]) < Rank(y[i])

\* networkx.simple_cycles: every elementary cycle once, as the list of its
\* nodes.  Each cycle is found from its least node, along simple paths through
\* greater nodes; the order of the cycles is lost in find_cycles' sort.
RECURSIVE cycles_along(_, _, _)
cycles_along(g, root, path) ==
    LET nexts == Range(successors(g, path[Len(path)]))
    IN  (IF root \in nexts THEN {path} ELSE {})
        \cup UNION {cycles_along(g, root, Append(path, w)) :
                      w \in {v \in nexts : Rank(v) > Rank(root) /\ v \notin Range(path)}}

simple_cycles(g) == UNION {cycles_along(g, r, << r >>) : r \in g.nodes}

\* sorted([sorted(cycle) for cycle in cycles]).
RECURSIVE sorted_cycles(_)
sorted_cycles(cycles) ==
    IF cycles = {} THEN << >>
    ELSE LET least == CHOOSE c \in cycles :
                 \A d \in cycles : ~LexLess(sorted(Range(d)), sorted(Range(c)))
         IN  << sorted(Range(least)) >> \o sorted_cycles(cycles \ {least})

\* find_cycles that reports no self-loop.
find_cycles_no_loops(g) == sorted_cycles({c \in simple_cycles(g) : Len(c) > 1})

\* The except branch (lines 177-179) is not reached: simple_cycles and the
\* sort of lists of strings raise nothing on a DiGraph.
find_cycles(g) == sorted_cycles(simple_cycles(g))

----------------------------------------------------------------------------
\* ImpactAnalyzer.

\* symbol_name.split(".")[0]; the names of the model hold no dot.
FirstSegment(name) == name

\* Python strings are sequences of characters: "x" in s, for strings x and s.
Contains(x, s) == \E i \in 1..(Len(s) - Len(x) + 1) : SubSeq(s, i, i + Len(x) - 1) = x

\* str.lower on the ASCII letters.
Uppercase == "ABCDEFGHIJKLMNOPQRSTUVWXYZ"
Lowercase == "abcdefghijklmnopqrstuvwxyz"
LowerChar(ch) ==
    IF \E i \in 1..Len(Uppercase) : SubSeq(Uppercase, i, i) = ch
    THEN LET i == CHOOSE j \in 1..Len(Uppercase) : SubSeq(Uppercase, j, j) = ch
         IN  SubSeq(Lowercase, i, i)
    ELSE ch
RECURSIVE lower(_)
lower(s) == IF s = "" THEN "" ELSE LowerChar(SubSeq(s, 1, 1)) \o lower(SubSeq(s, 2, Len(s)))

\* "test" in sym, without the call of lower.
MentionsTest_cased(name) == Contains("test", name)

\* "test" in sym.lower()
MentionsTest(name) == Contains("test", lower(name))

_has_tests(affected) == \E sym \in affected : MentionsTest(sym)

Min(x, y) == IF x < y THEN x ELSE y
Max(x, y) == IF x > y THEN x ELSE y

\* The score without the reduction of lines 168-169.
_calculate_risk_score_no_reduction(affected, depth, has_tests) ==
    Max(0, Min(100, Min(50, Cardinality(affected) * 5) + Min(30, depth * 2)))

_calculate_risk_score(affected, depth, has_tests) ==
    LET num_affected == Cardinality(affected)
        base_score == Min(50, num_affected * 5)
        depth_score == Min(30, depth * 2)
        test_reduction == IF has_tests THEN 10 ELSE 0
        score == base_score + depth_score - test_reduction
    IN  Max(0, Min(100, score))

\* The two paths per module, as the pieces of their f-strings; sorted, the
\* directories come first, every module name of the model sorting before
\* "test_".
suggest_test_files(affected) ==
    LET modules == sorted({FirstSegment(sym) : sym \in affected})
    IN  [i \in 1..Len(modules) |-> << "tests/", modules[i], "/test_*.py" >>]
        \o [i \in 1..Len(modules) |-> << "tests/test_", modules[i], ".py" >>]

\* depth=max_depth - 1 if max_depth else None: 0 is as falsy as None.
TransitiveDepth(max_depth) ==
    IF max_depth # None /\ max_depth[1] # 0 THEN Some(max_depth[1] - 1) ELSE None

\* The loop without the test of line 96: what calls a caller is transitive
\* even when it is a direct impact.
RECURSIVE impact_loop_no_subtract(_, _, _, _, _, _)
impact_loop_no_subtract(g, symbols, i, direct_depth, max_depth, acc) ==
    IF i > Len(symbols) THEN acc
    ELSE IF ~has_node(g, symbols[i])
    THEN impact_loop_no_subtract(g, symbols, i + 1, direct_depth, max_depth, acc)
    ELSE LET callers == get_callers(g, symbols[i], direct_depth)
             transitive == UNION {Range(get_callers(g, callers[j], TransitiveDepth(max_depth)))
                                    : j \in 1..Len(callers)}
         IN  impact_loop_no_subtract(g, symbols, i + 1, direct_depth, max_depth,
                 [direct |-> acc.direct \cup Range(callers),
                  transitive |-> acc.transitive \cup transitive])

\* The loop with a break where line 80 has continue: a symbol that is no node
\* ends the analysis.
RECURSIVE impact_loop_break(_, _, _, _, _, _)
impact_loop_break(g, symbols, i, direct_depth, max_depth, acc) ==
    IF i > Len(symbols) \/ ~has_node(g, symbols[i]) THEN acc
    ELSE LET callers == get_callers(g, symbols[i], direct_depth)
             direct == acc.direct \cup Range(callers)
             transitive == UNION {Range(get_callers(g, callers[j], TransitiveDepth(max_depth)))
                                    : j \in 1..Len(callers)}
         IN  impact_loop_break(g, symbols, i + 1, direct_depth, max_depth,
                 [direct |-> direct,
                  transitive |-> acc.transitive \cup (transitive \ direct)])

\* The for loop of lines 77-97 from the i-th symbol on; direct_depth is the
\* depth of the call of line 83.
RECURSIVE impact_loop(_, _, _, _, _, _)
impact_loop(g, symbols, i, direct_depth, max_depth, acc) ==
    IF i > Len(symbols) THEN acc
    ELSE IF ~has_node(g, symbols[i])
    THEN impact_loop(g, symbols, i + 1, direct_depth, max_depth, acc)
    ELSE LET callers == get_callers(g, symbols[i], direct_depth)
             direct == acc.direct \cup Range(callers)
             transitive == UNION {Range(get_callers(g, callers[j], TransitiveDepth(max_depth)))
                                    : j \in 1..Len(callers)}
         IN  impact_loop(g, symbols, i + 1, direct_depth, max_depth,
                 [direct |-> direct,
                  transitive |-> acc.transitive \cup (transitive \ direct)])

ImpactReport(found) ==
    LET all_affected == found.direct \cup found.transitive
    IN  [affected_symbols |-> sorted(all_affected),
         affected_files |-> sorted({FirstSegment(sym) : sym \in all_affected}),
         risk_score |-> _calculate_risk_score(all_affected,
                            Cardinality(found.transitive), _has_tests(all_affected)),
         suggested_tests |-> suggest_test_files(all_affected),
         direct_impacts |-> sorted(found.direct),
         transitive_impacts |-> sorted(found.transitive)]

\* analyze_impact that hands max_depth to the get_callers call of line 83.
analyze_impact_bounded(g, symbols, max_depth) ==
    ImpactReport(impact_loop(g, symbols, 1, max_depth, max_depth,
                             [direct |-> {}, transitive |-> {}]))

\* analyze_impact whose direct impacts are the immediate callers only.
analyze_impact_immediate(g, symbols, max_depth) ==
    ImpactReport(impact_loop(g, symbols, 1, Some(0), max_depth,
                             [direct |-> {}, transitive |-> {}]))

\* analyze_impact that bounds the get_callers call of line 83 as it bounds the
\* call of line 91.
analyze_impact_direct_limited(g, symbols, max_depth) ==
    ImpactReport(impact_loop(g, symbols, 1, TransitiveDepth(max_depth), max_depth,
                             [direct |-> {}, transitive |-> {}]))

analyze_impact(g, symbols, max_depth) ==
    ImpactReport(impact_loop(g, symbols, 1, None, max_depth,
                             [direct |-> {}, transitive |-> {}]))

----------------------------------------------------------------------------
\* SymbolRegistry (codemap/analyzer/symbols.py).

\* A Python dict: its items in insertion order, one per key; assigning to a
\* key that is there replaces the value where it stands.
dict_has(d, key) == \E i \in 1..Len(d) : d[i].key = key
dict_get(d, key) ==
    IF dict_has(d, key)
    THEN Some(d[CHOOSE i \in 1..Len(d) : d[i].key = key].value)
    ELSE None
dict_set(d, key, value) ==
    IF dict_has(d, key)
    THEN [i \in 1..Len(d) |-> IF d[i].key = key THEN [key |-> key, value |-> value] ELSE d[i]]
    ELSE Append(d, [key |-> key, value |-> value])
dict_values(d) == [i \in 1..Len(d) |-> d[i].value]

\* Symbol, with its SourceLocation.  name, column, docstring and signature
\* are read by no operation of the registry and are left out.
QualifiedNames == {"auth.validate_user", "auth.validate_token", "api.routes.login"}
Files == {"auth.py", "api.py"}
Lines == {10, 20}
Symbols ==
    [qualified_name : QualifiedNames, kind : {"function"},
     location : [file : Files, line : Lines]]

EmptyRegistry == [_by_name |-> << >>, _by_location |-> << >>]

\* add that leaves a qualified name that is there alone.
add_keep_first(r, symbol) ==
    [_by_name |-> IF dict_has(r._by_name, symbol.qualified_name)
                  THEN r._by_name
                  ELSE dict_set(r._by_name, symbol.qualified_name, symbol),
     _by_location |-> dict_set(r._by_location,
                               << symbol.location.file, symbol.location.line >>, symbol)]

add(r, symbol) ==
    [_by_name |-> dict_set(r._by_name, symbol.qualified_name, symbol),
     _by_location |-> dict_set(r._by_location,
                               << symbol.location.file, symbol.location.line >>, symbol)]

get(r, qualified_name) == dict_get(r._by_name, qualified_name)

get_by_location(r, file, line) == dict_get(r._by_location, << file, line >>)

get_all(r) == dict_values(r._by_name)

__len__(r) == Len(r._by_name)

__contains__(r, qualified_name) == dict_has(r._by_name, qualified_name)

\* fnmatch where the dot stands for any one character, as in a regular
\* expression.
RECURSIVE fnmatch_dot_any(_, _)
fnmatch_dot_any(name, pat) ==
    IF pat = "" THEN name = ""
    ELSE LET p == SubSeq(pat, 1, 1)
             rest == SubSeq(pat, 2, Len(pat))
         IN  IF p = "*"
             THEN \E k \in 0..Len(name) : fnmatch_dot_any(SubSeq(name, k + 1, Len(name)), rest)
             ELSE /\ name # ""
                  /\ p \in {"?", ".", SubSeq(name, 1, 1)}
                  /\ fnmatch_dot_any(SubSeq(name, 2, Len(name)), rest)

\* fnmatch.fnmatch(name, pat) where os.path.normcase changes nothing (POSIX):
\* the whole name against the pattern, * for any run of characters, ? for any
\* one character, every other character for itself.  The patterns of the
\* model hold no bracket expression.
RECURSIVE fnmatch(_, _)
fnmatch(name, pat) ==
    IF pat = "" THEN name = ""
    ELSE LET p == SubSeq(pat, 1, 1)
             rest == SubSeq(pat, 2, Len(pat))
         IN  IF p = "*"
             THEN \E k \in 0..Len(name) : fnmatch(SubSeq(name, k + 1, Len(name)), rest)
             ELSE /\ name # ""
                  /\ p \in {"?", SubSeq(name, 1, 1)}
                  /\ fnmatch(SubSeq(name, 2, Len(name)), rest)

search(r, pattern) ==
    LET Matching(item) == fnmatch(item.key, pattern)
    IN  dict_values(SelectSeq(r._by_name, Matching))

----------------------------------------------------------------------------
\* validate_code_map (codemap/output/schemas.py).
\*
\* A document is a value as json.load gives it, or as a caller hands it to
\* save: [type, val], with a function from keys to values as the val of a
\* dict and a sequence as the val of a list.

Dict(items) == [type |-> "dict", val |-> items]
List(items) == [type |-> "list", val |-> items]
IntValue(n) == [type |-> "int", val |-> n]
\* A pathlib.Path left in a document: no JSON type.
PathValue(s) == [type |-> "Path", val |-> s]

isinstance(value, type) == value.type = type
keys(d) == DOMAIN d.val

\* A string built from pieces, as an f-string builds it; << >> is "".
Message(text) == << text >>

Valid == [is_valid |-> TRUE, error_msg |-> << >>]
Invalid(error_msg) == [is_valid |-> FALSE, error_msg |-> error_msg]

required_fields == {"version", "generated_at", "source_root", "symbols", "dependencies"}

\* The first entry of a list that the loop of lines 76-80 or 86-90 returns
\* on, 0 when it returns on none.
FirstWithout(entries, first_key, second_key) ==
    LET failing == {i \in 1..Len(entries) :
                       \/ ~isinstance(entries[i], "dict")
                       \/ first_key \notin keys(entries[i])
                       \/ second_key \notin keys(entries[i])}
    IN  IF failing = {} THEN 0
        ELSE CHOOSE i \in failing : \A j \in failing : i <= j

\* validate_code_map that does not look into the dependencies.
validate_code_map_symbols_only(data) ==
    IF ~isinstance(data, "dict") THEN Invalid(Message("Code map must be a dictionary"))
    ELSE IF required_fields \ keys(data) # {}
    THEN Invalid(<< "Missing required fields: ", required_fields \ keys(data) >>)
    ELSE IF ~isinstance(data.val["symbols"], "list")
    THEN Invalid(Message("symbols must be a list"))
    ELSE LET symbols == data.val["symbols"].val
             s == FirstWithout(symbols, "qualified_name", "kind")
         IN  IF s # 0 /\ ~isinstance(symbols[s], "dict")
             THEN Invalid(Message("Each symbol must be a dictionary"))
             ELSE IF s # 0
             THEN Invalid(Message("Each symbol must have qualified_name and kind"))
             ELSE Valid

validate_code_map(data) ==
    IF ~isinstance(data, "dict") THEN Invalid(Message("Code map must be a dictionary"))
    ELSE IF required_fields \ keys(data) # {}
    THEN Invalid(<< "Missing required fields: ", required_fields \ keys(data) >>)
    ELSE IF ~isinstance(data.val["symbols"], "list")
    THEN Invalid(Message("symbols must be a list"))
    ELSE LET symbols == data.val["symbols"].val
             s == FirstWithout(symbols, "qualified_name", "kind")
         IN  IF s # 0 /\ ~isinstance(symbols[s], "dict")
             THEN Invalid(Message("Each symbol must be a dictionary"))
             ELSE IF s # 0
             THEN Invalid(Message("Each symbol must have qualified_name and kind"))
             ELSE IF ~isinstance(data.val["dependencies"], "list")
             THEN Invalid(Message("dependencies must be a list"))
             ELSE LET dependencies == data.val["dependencies"].val
                      d == FirstWithout(dependencies, "from_sym", "to_sym")
                  IN  IF d # 0 /\ ~isinstance(dependencies[d], "dict")
                      THEN Invalid(Message("Each dependency must be a dictionary"))
                      ELSE IF d # 0
                      THEN Invalid(Message("Each dependency must have from_sym and to_sym"))
                      ELSE Valid

\* The documents of the model.  A key, where it is there, has one value.
FieldValue(key) ==
    CASE key = "version" -> Str("1.0")
      [] key = "generated_at" -> Str("2024-01-01T00:00:00+00:00")
      [] key = "source_root" -> Str(".")
      [] key = "qualified_name" -> Str("auth.login")
      [] key = "kind" -> Str("function")
      [] key = "file" -> Str("auth.py")
      [] key = "line" -> IntValue(10)
      [] key = "from_sym" -> Str("api.login")
      [] key = "to_sym" -> Str("auth.login")

Entry(ks) == Dict([k \in ks |-> FieldValue(k)])

SymbolKeys == {"qualified_name", "kind", "file", "line"}
DependencyKeys == {"from_sym", "to_sym"}

\* An entry is a dict with some of its keys, or no dict at all: a symbol
\* with all four keys, or with some of qualified_name and kind alone.
SymbolEntries ==
    {Str("auth.login"), Entry(SymbolKeys)}
    \cup {Entry(ks) : ks \in SUBSET {"qualified_name", "kind"}}
DependencyEntries == {Str("api.login")} \cup {Entry(ks) : ks \in SUBSET DependencyKeys}

ListsOf(entries) == {List(l) : l \in UNION {[1..n -> entries] : n \in 0..MaxEntries}}

Document(ks, symbols, dependencies) ==
    Dict([k \in ks |-> IF k = "symbols" THEN symbols
                       ELSE IF k = "dependencies" THEN dependencies
                       ELSE FieldValue(k)])

\* What stands under symbols and under dependencies: a list of entries, or
\* no list.
SymbolsValues == {Str("symbols"), Entry({})} \cup ListsOf(SymbolEntries)
DependenciesValues == {Str("dependencies"), Entry({})} \cup ListsOf(DependencyEntries)

\* No dict; a dict without some of the five keys; a dict with the five keys
\* and the given values under symbols and dependencies.
Documents(symbols_values, dependencies_values) ==
    {Str("code map"), List(<< >>)}
    \cup {Document(ks, List(<< >>), List(<< >>)) : ks \in (SUBSET required_fields) \ {required_fields}}
    \cup {Document(required_fields, symbols, dependencies) :
             symbols \in symbols_values, dependencies \in dependencies_values}

----------------------------------------------------------------------------
\* CodeMapGenerator.save and load (codemap/output/code_map.py).

\* The keys of the documents, in the order Python's string comparison gives
\* them.
KeyOrder ==
    << "dependencies", "file", "from_sym", "generated_at", "kind", "line",
       "locations", "qualified_name", "schema", "source_root", "symbols",
       "to_sym", "version" >>

\* What json can write.
RECURSIVE Serializable(_)
Serializable(value) ==
    CASE value.type = "dict" -> \A k \in keys(value) : Serializable(value.val[k])
      [] value.type = "list" -> \A i \in 1..Len(value.val) : Serializable(value.val[i])
      [] value.type \in {"str", "int"} -> TRUE
      [] OTHER -> FALSE

\* json.dump(data, file, indent=2, sort_keys=True, ensure_ascii=False): the
\* text, as the JSON value it spells, the members of an object in the order
\* of their names.
RECURSIVE dumps(_)
dumps(value) ==
    CASE value.type = "dict" ->
             LET Present(k) == k \in keys(value)
                 names == SelectSeq(KeyOrder, Present)
             IN  [json |-> "object",
                  members |-> [i \in 1..Len(names) |->
                                  [name |-> names[i], value |-> dumps(value.val[names[i]])]]]
      [] value.type = "list" ->
             [json |-> "array",
              elements |-> [i \in 1..Len(value.val) |-> dumps(value.val[i])]]
      [] value.type = "str" -> [json |-> "string", chars |-> value.val]
      [] value.type = "int" -> [json |-> "number", digits |-> value.val]

\* A text json.load raises JSONDecodeError on: what a dump that raised half
\* way left behind, and a text that never was JSON.
Truncated == [json |-> "truncated"]
NotJson == [json |-> "{ invalid json }"]
IsJson(text) == text.json \in {"object", "array", "string", "number"}

\* json.load on a text that is JSON.
RECURSIVE loads(_)
loads(text) ==
    CASE text.json = "object" ->
             Dict([k \in {text.members[i].name : i \in 1..Len(text.members)} |->
                      loads(text.members[CHOOSE i \in 1..Len(text.members) :
                                             text.members[i].name = k].value)])
      [] text.json = "array" ->
             List([i \in 1..Len(text.elements) |-> loads(text.elements[i])])
      [] text.json = "string" -> Str(text.chars)
      [] text.json = "number" -> IntValue(text.digits)

\* The paths of the model: one in the working directory, one in a directory
\* that is not there at first.
Paths == {"CODE_MAP.json", "out/CODE_MAP.json"}

\* Path.parent of a relative path.
parent(path) ==
    LET slashes == {i \in 1..Len(path) : SubSeq(path, i, i) = "/"}
    IN  IF slashes = {} THEN "."
        ELSE SubSeq(path, 1, (CHOOSE i \in slashes : \A j \in slashes : j <= i) - 1)

EmptyDisk == [dirs |-> {"."}, files |-> [path \in Paths |-> None]]

exists(d, path) == d.files[path] # None

\* What a call comes to: a value returned or an exception raised.
Return(value) == [raised |-> "", value |-> value]
Raise(exception, message) == [raised |-> exception, message |-> message]

\* save that makes the parent directory before it validates.
save_mkdir_first(d, data, path) ==
    LET validation == validate_code_map(data)
        made == [d EXCEPT !.dirs = @ \cup {parent(path)}]
    IN  IF ~validation.is_valid
        THEN [disk |-> made,
              outcome |-> Raise("ValueError",
                                << "Code map validation failed: " >> \o validation.error_msg)]
        ELSE IF Serializable(data)
        THEN [disk |-> [made EXCEPT !.files[path] = Some(dumps(data))],
              outcome |-> Return(None)]
        ELSE [disk |-> [made EXCEPT !.files[path] = Some(Truncated)],
              outcome |-> Raise("TypeError", Message("Object of type PosixPath is not JSON serializable"))]

\* save: the disk it leaves and what the call comes to.  open(path, "w")
\* empties the file before json.dump writes, so a dump that raises leaves a
\* text that is no JSON.
save(d, data, path) ==
    LET validation == validate_code_map(data)
        made == [d EXCEPT !.dirs = @ \cup {parent(path)}]
    IN  IF ~validation.is_valid
        THEN [disk |-> d,
              outcome |-> Raise("ValueError",
                                << "Code map validation failed: " >> \o validation.error_msg)]
        ELSE IF Serializable(data)
        THEN [disk |-> [made EXCEPT !.files[path] = Some(dumps(data))],
              outcome |-> Return(None)]
        ELSE [disk |-> [made EXCEPT !.files[path] = Some(Truncated)],
              outcome |-> Raise("TypeError", Message("Object of type PosixPath is not JSON serializable"))]

load(d, path) ==
    IF ~exists(d, path)
    THEN Raise("FileNotFoundError", << "CODE_MAP file not found: ", path >>)
    ELSE IF ~IsJson(d.files[path][1])
    THEN Raise("JSONDecodeError", Message("Expecting value"))
    ELSE LET data == loads(d.files[path][1])
             validation == validate_code_map(data)
         IN  IF ~validation.is_valid
             THEN Raise("ValueError",
                        << "Code map validation failed: " >> \o validation.error_msg)
             ELSE Return(data)

\* CodeMapGenerator.generate.

\* The qualified names of the registry, in the order Python's string
\* comparison gives them.
QualifiedNameOrder == << "api.routes.login", "auth.validate_token", "auth.validate_user" >>

\* list.sort(key=...) on a list whose keys have the ranks 1..n: stable.
SortedByRank(entries, RankOf(_), n) ==
    LET upto[k \in 0..n] ==
            IF k = 0 THEN << >>
            ELSE upto[k - 1] \o SelectSeq(entries, LAMBDA entry : RankOf(entry) = k)
    IN  upto[n]

\* The entry of a symbol (lines 51-65).  The symbols of the model have column
\* 0 and neither docstring nor signature, so no optional key is added;
\* symbol.kind.value is the string of the kind and str(symbol.location.file)
\* the string of the path.
symbol_entry(symbol) ==
    Dict([k \in {"qualified_name", "kind", "file", "line"} |->
             CASE k = "qualified_name" -> Str(symbol.qualified_name)
               [] k = "kind" -> Str(symbol.kind)
               [] k = "file" -> Str(symbol.location.file)
               [] k = "line" -> IntValue(symbol.location.line)])

\* The entry of an edge (lines 78-92): locations is added when the edge has
\* any, each location string as a file with line 0.
dep_entry(edge) ==
    LET locations_data ==
            List([i \in 1..Len(edge.locations) |->
                     Dict([k \in {"file", "line"} |->
                              IF k = "file" THEN Str(edge.locations[i]) ELSE IntValue(0)])])
    IN  Dict([k \in {"from_sym", "to_sym", "kind"}
                     \cup (IF edge.locations # << >> THEN {"locations"} ELSE {}) |->
                 CASE k = "from_sym" -> Str(edge.from)
                   [] k = "to_sym" -> Str(edge.to)
                   [] k = "kind" -> Str(edge.kind)
                   [] k = "locations" -> locations_data])

\* get_edges: the edges, which generate sorts (line 95), so that their order
\* here does not show.
get_edges(g) == [i \in 1..Len(g.edges) |-> << g.edges[i].from, g.edges[i].to >>]

QualifiedNameRank(entry) ==
    CHOOSE i \in 1..Len(QualifiedNameOrder) : QualifiedNameOrder[i] = entry.val["qualified_name"].val

EndpointsRank(entry) ==
    (Rank(entry.val["from_sym"].val) - 1) * Len(NameOrder) + Rank(entry.val["to_sym"].val)

\* generate that leaves out both sorts.
generate_unsorted(g, r, source_root, timestamp) ==
    LET all == get_all(r)
        symbols_data == [i \in 1..Len(all) |-> symbol_entry(all[i])]
        edges == get_edges(g)
        dependencies_data ==
            [i \in 1..Len(edges) |-> dep_entry(g.edges[EdgeIndex(g, edges[i][1], edges[i][2])])]
    IN  Dict([k \in {"schema", "version", "generated_at", "source_root",
                     "symbols", "dependencies"} |->
                 CASE k = "schema" -> Str("http://json-schema.org/draft-07/schema#")
                   [] k = "version" -> Str("1.0")
                   [] k = "generated_at" -> Str(timestamp)
                   [] k = "source_root" -> Str(source_root)
                   [] k = "symbols" -> List(symbols_data)
                   [] k = "dependencies" -> List(dependencies_data)])

\* generate(graph, registry, source_root), with the timestamp it reads from
\* the clock.  Every edge of the graph has the attributes kind and locations,
\* so the test of line 76 skips none.
generate(g, r, source_root, timestamp) ==
    LET all == get_all(r)
        symbols_data == [i \in 1..Len(all) |-> symbol_entry(all[i])]
        edges == get_edges(g)
        dependencies_data ==
            [i \in 1..Len(edges) |-> dep_entry(g.edges[EdgeIndex(g, edges[i][1], edges[i][2])])]
    IN  Dict([k \in {"schema", "version", "generated_at", "source_root",
                     "symbols", "dependencies"} |->
                 CASE k = "schema" -> Str("http://json-schema.org/draft-07/schema#")
                   [] k = "version" -> Str("1.0")
                   [] k = "generated_at" -> Str(timestamp)
                   [] k = "source_root" -> Str(source_root)
                   [] k = "symbols" ->
                          List(SortedByRank(symbols_data, QualifiedNameRank,
                                            Len(QualifiedNameOrder)))
                   [] k = "dependencies" ->
                          List(SortedByRank(dependencies_data, EndpointsRank,
                                            Len(NameOrder) * Len(NameOrder)))])

\* The documents saved and loaded: valid ones, with and without the file and
\* line of a symbol; the invalid map of the tests; one without dependencies;
\* one whose symbol has no qualified_name; a list; and a valid one that json
\* cannot write.
ValidDocument ==
    Document(required_fields, List(<< Entry(SymbolKeys) >>), List(<< Entry(DependencyKeys) >>))
EmptyDocument == Document(required_fields, List(<< >>), List(<< >>))
SymbolWithoutLocation ==
    Document(required_fields, List(<< Entry({"qualified_name", "kind"}) >>), List(<< >>))
SymbolWithoutLine ==
    Document(required_fields, List(<< Entry({"qualified_name", "kind", "file"}) >>), List(<< >>))
VersionOnly == Document({"version"}, List(<< >>), List(<< >>))
WithoutDependencies == Document(required_fields \ {"dependencies"}, List(<< >>), List(<< >>))
SymbolWithoutName ==
    Document(required_fields, List(<< Entry({"kind", "file", "line"}) >>), List(<< >>))
PathAsSourceRoot ==
    Dict([k \in required_fields |->
             IF k = "source_root" THEN PathValue(".") ELSE EmptyDocument.val[k]])
PersistedDocuments ==
    {ValidDocument, EmptyDocument, SymbolWithoutLocation, SymbolWithoutLine, VersionOnly,
     WithoutDependencies, SymbolWithoutName, List(<< >>), PathAsSourceRoot}

\* The texts another program may leave in a file.
Texts == {dumps(data) : data \in {d \in PersistedDocuments : Serializable(d)}} \cup {NotJson}

----------------------------------------------------------------------------
\* Actions: one per call on the graph.

----------------------------------------------------------------------------
\* JobManager (codemap/api/jobs.py).

JobStatus ==
    [PENDING |-> "pending", RUNNING |-> "running",
     COMPLETED |-> "completed", FAILED |-> "failed"]

\* str(uuid.uuid4())[:8]: eight hexadecimal digits, not told apart from the
\* ids given out before.
JobIds == {"1a2b3c4d", "5e6f7a8b"}
RepoUrls == {"https://github.com/user/repo.git"}
Branches == {"main"}
\* datetime.now(timezone.utc), as the clock gives it.
Times == {1}

Job(id, repo_url, branch, status, created_at) ==
    [id |-> id, repo_url |-> repo_url, branch |-> branch, status |-> status,
     created_at |-> created_at, completed_at |-> None, result_path |-> None,
     error |-> None]

\* create_job with the id and the time it draws: the new _jobs and the job
\* returned.
create_job(_jobs, job_id, repo_url, branch, now) ==
    LET job == Job(job_id, repo_url, branch, JobStatus.PENDING, now)
    IN  [_jobs |-> dict_set(_jobs, job_id, job), job |-> job]

get_job(_jobs, job_id) == dict_get(_jobs, job_id)

\* The steps of the try block of run_job, in order, and what may go wrong at
\* each: the exception a step raises, or KeyboardInterrupt, which no except
\* clause of run_job catches.  "Exception" stands for any other subclass of
\* Exception (OSError, subprocess.TimeoutExpired, ValueError, ...).  Every
\* step may also succeed, as it does with the analyzer and the generators that
\* the tests put in place.
Steps ==
    << "mkdtemp", "git clone", "mkdir", "analyze",
       "CODE_MAP.json", "module.mermaid", "function.mermaid", "impact.mermaid" >>

RaisedBy(step) ==
    {"Exception", "KeyboardInterrupt"}
    \cup (IF step = "git clone" THEN {"CalledProcessError", "FileNotFoundError"} ELSE {})
    \cup (IF step = "analyze" THEN {"FileNotFoundError"} ELSE {})

NoFault == [at |-> Len(Steps) + 1, exception |-> ""]
Faults ==
    {NoFault}
    \cup UNION {{[at |-> i, exception |-> x] : x \in RaisedBy(Steps[i])} : i \in 1..Len(Steps)}

\* exc.stderr and str(exc).
Stderr == "fatal: repository not found"
ExcText(fault) == "[Errno 2] No such file or directory"

ResultDir(job_id) == "results/" \o job_id

\* The files under the result directory once the step before the fault is
\* done: mkdir(parents=True, exist_ok=True) keeps what is there, write_text
\* writes one file per output step.
WrittenBefore(fault) ==
    {Steps[i] : i \in {j \in 5..Len(Steps) : j < fault.at}}

\* run_job_try whose last except clause leaves completed_at alone.
run_job_try_no_completed_at(job, files, fault, now) ==
    LET job1 == IF fault.at > 3
                THEN [job EXCEPT !.result_path = Some(ResultDir(job.id))] ELSE job
        files1 == IF fault.at > 3
                  THEN Some((IF files = None THEN {} ELSE files[1]) \cup WrittenBefore(fault))
                  ELSE files
        job2 == IF fault = NoFault
                THEN [job1 EXCEPT !.status = JobStatus.COMPLETED,
                                  !.completed_at = Some(now)]
                ELSE IF fault.exception = "CalledProcessError"
                THEN [job1 EXCEPT !.status = JobStatus.FAILED,
                                  !.error = Some(<< "Git clone failed: ", Stderr >>),
                                  !.completed_at = Some(now)]
                ELSE IF fault.exception = "FileNotFoundError"
                THEN [job1 EXCEPT !.status = JobStatus.FAILED,
                                  !.error = Some(<< "Git not found or repository not accessible: ",
                                                    ExcText(fault) >>),
                                  !.completed_at = Some(now)]
                ELSE IF fault.exception = "Exception"
                THEN [job1 EXCEPT !.status = JobStatus.FAILED,
                                  !.error = Some(<< "Analysis failed: ", ExcText(fault) >>)]
                ELSE job1
    IN  [job |-> job2, files |-> files1,
         raised |-> IF fault.exception = "KeyboardInterrupt" THEN fault.exception ELSE ""]

\* Lines 183-289 of run_job, for a job that is RUNNING: the try block up to the
\* fault, the except clause that takes it, and the finally clause, which
\* removes the temporary directory that mkdtemp made.  The result: the job,
\* the files of its result directory, and the exception that leaves run_job.
run_job_try(job, files, fault, now) ==
    LET job1 == IF fault.at > 3
                THEN [job EXCEPT !.result_path = Some(ResultDir(job.id))] ELSE job
        files1 == IF fault.at > 3
                  THEN Some((IF files = None THEN {} ELSE files[1]) \cup WrittenBefore(fault))
                  ELSE files
        job2 == IF fault = NoFault
                THEN [job1 EXCEPT !.status = JobStatus.COMPLETED,
                                  !.completed_at = Some(now)]
                ELSE IF fault.exception = "CalledProcessError"
                THEN [job1 EXCEPT !.status = JobStatus.FAILED,
                                  !.error = Some(<< "Git clone failed: ", Stderr >>),
                                  !.completed_at = Some(now)]
                ELSE IF fault.exception = "FileNotFoundError"
                THEN [job1 EXCEPT !.status = JobStatus.FAILED,
                                  !.error = Some(<< "Git not found or repository not accessible: ",
                                                    ExcText(fault) >>),
                                  !.completed_at = Some(now)]
                ELSE IF fault.exception = "Exception"
                THEN [job1 EXCEPT !.status = JobStatus.FAILED,
                                  !.error = Some(<< "Analysis failed: ", ExcText(fault) >>),
                                  !.completed_at = Some(now)]
                ELSE job1
    IN  [job |-> job2, files |-> files1,
         raised |-> IF fault.exception = "KeyboardInterrupt" THEN fault.exception ELSE ""]

\* returned is FALSE for a call that never comes back.
Call(op, args, value) == [op |-> op, args |-> args, value |-> value, returned |-> TRUE]

\* The construction calls return None; no query has been made yet.
NoQuery == Call("", << >>, None)

Init ==
    /\ graph = EmptyGraph
    /\ ret = NoQuery
    /\ registry = EmptyRegistry
    /\ added = << >>
    /\ disk = EmptyDisk
    /\ jobs = << >>
    /\ running = None
    /\ results = [job_id \in JobIds |-> None]

AddSymbol ==
    \E n \in AttrNames :
        /\ graph' = add_symbol(graph, n)
        /\ ret' = NoQuery
        /\ UNCHANGED << registry, added, disk, jobs, running, results >>

AddSymbolData ==
    \E d \in SymbolDataArgs :
        /\ graph' = add_symbol_data(graph, d)
        /\ ret' = NoQuery
        /\ UNCHANGED << registry, added, disk, jobs, running, results >>

AddDependency ==
    \E f \in AttrNames, t \in AttrNames, k \in Kinds, l \in LocationArgs :
        /\ has_edge(graph, f, t) \/ Len(graph.edges) < MaxAttrEdges
        /\ graph' = add_dependency(graph, f, t, k, l)
        /\ ret' = NoQuery
        /\ UNCHANGED << registry, added, disk, jobs, running, results >>

Next == AddSymbol \/ AddSymbolData \/ AddDependency

Spec == Init /\ [][Next]_vars

\* Queries, on graphs built by add_dependency(from_sym, to_sym) with the
\* default kind and no location, and by add_symbol.  As in the commands of
\* cli.py, the graph is built first and queried afterwards; a query leaves
\* the graph as it is, so one query per run reaches every result.
Constructed == ret.op = ""

DeclareSymbol ==
    \E n \in Names :
        /\ Constructed
        /\ graph' = add_symbol(graph, n)
        /\ ret' = NoQuery
        /\ UNCHANGED << registry, added, disk, jobs, running, results >>

AddCall(max) ==
    \E f \in Names, t \in Names :
        /\ Constructed
        /\ has_edge(graph, f, t) \/ Len(graph.edges) < max
        /\ graph' = add_dependency(graph, f, t, "calls", None)
        /\ ret' = NoQuery
        /\ UNCHANGED << registry, added, disk, jobs, running, results >>

GetCallers ==
    \E s \in Names, d \in DepthArgs :
        /\ Constructed
        /\ ret' = [Call("get_callers", << s, d >>, get_callers(graph, s, d))
                      EXCEPT !.returned = ~callers_run(graph, s, d).cut]
        /\ UNCHANGED << graph, registry, added, disk, jobs, running, results >>

GetCallees ==
    \E s \in Names, d \in DepthArgs :
        /\ Constructed
        /\ ret' = [Call("get_callees", << s, d >>, get_callees(graph, s, d))
                      EXCEPT !.returned = ~callees_run(graph, s, d).cut]
        /\ UNCHANGED << graph, registry, added, disk, jobs, running, results >>

FindCycles ==
    /\ Constructed
    /\ ret' = Call("find_cycles", << >>, find_cycles(graph))
    /\ UNCHANGED << graph, registry, added, disk, jobs, running, results >>

QueryNext ==
    DeclareSymbol \/ AddCall(MaxEdges) \/ GetCallers \/ GetCallees \/ FindCycles

QuerySpec == Init /\ [][QueryNext]_vars

\* Bounded queries on graphs deep enough for two paths of different lengths to
\* the same node: four names, calls between different symbols, and queries on
\* the one symbol "a" (the names are interchangeable, and the sorted result is
\* compared as a set).
DeepNames == {"a", "b", "c", "d"}
BoundedDepths == {Some(d) : d \in 0..MaxDepth}

AddDeepCall ==
    \E f \in DeepNames, t \in DeepNames :
        /\ Constructed
        /\ f # t
        /\ has_edge(graph, f, t) \/ Len(graph.edges) < MaxDeepEdges
        /\ graph' = add_dependency(graph, f, t, "calls", None)
        /\ ret' = NoQuery
        /\ UNCHANGED << registry, added, disk, jobs, running, results >>

GetCallersBounded ==
    \E d \in BoundedDepths :
        /\ Constructed
        /\ ret' = [Call("get_callers", << "a", d >>, get_callers(graph, "a", d))
                      EXCEPT !.returned = ~callers_run(graph, "a", d).cut]
        /\ UNCHANGED << graph, registry, added, disk, jobs, running, results >>

GetCalleesBounded ==
    \E d \in BoundedDepths :
        /\ Constructed
        /\ ret' = [Call("get_callees", << "a", d >>, get_callees(graph, "a", d))
                      EXCEPT !.returned = ~callees_run(graph, "a", d).cut]
        /\ UNCHANGED << graph, registry, added, disk, jobs, running, results >>

DeepNext == AddDeepCall \/ GetCallersBounded \/ GetCalleesBounded

DeepSpec == Init /\ [][DeepNext]_vars

\* Impact analysis, on graphs built the same way.

SymbolLists == UNION {[1..n -> Names] : n \in 0..MaxSymbols}
MaxDepthArgs == {None} \cup {Some(d) : d \in 0..MaxDepth}

AnalyzeImpact ==
    \E symbols \in SymbolLists, max_depth \in MaxDepthArgs :
        /\ Constructed
        /\ ret' = Call("analyze_impact", << symbols, max_depth >>,
                       analyze_impact(graph, symbols, max_depth))
        /\ UNCHANGED << graph, registry, added, disk, jobs, running, results >>

ImpactNext == DeclareSymbol \/ AddCall(MaxImpactEdges) \/ AnalyzeImpact

ImpactSpec == Init /\ [][ImpactNext]_vars

\* The risk score, as a function of its arguments: on sets of qualified
\* names large enough for both caps, some of them holding "test" in lower
\* case, in upper case, across a dot, or not at all.
RiskNames ==
    {"a", "b", "c", "d", "e", "f", "g", "h", "i",
     "tes.t", "test_auth.check", "api.TestLogin"}
TransitiveCounts == 0..MaxTransitive

\* _calculate_risk_score called on its own, as test_risk_score_calculation does.
CalculateRiskScore ==
    /\ Constructed
    /\ \E affected \in SUBSET RiskNames, depth \in TransitiveCounts, has_tests \in BOOLEAN :
        /\ ret' = Call("_calculate_risk_score", << affected, depth, has_tests >>,
                       _calculate_risk_score(affected, depth, has_tests))
        /\ UNCHANGED << graph, registry, added, disk, jobs, running, results >>

\* Lines 108-113 of analyze_impact: the score of a set of affected symbols
\* of which a given number are transitive impacts.
RiskScore ==
    /\ Constructed
    /\ \E affected \in SUBSET RiskNames, transitive \in TransitiveCounts :
        /\ ret' = Call("risk_score", << affected, transitive >>,
                       _calculate_risk_score(affected, transitive, _has_tests(affected)))
        /\ UNCHANGED << graph, registry, added, disk, jobs, running, results >>

RiskNext == CalculateRiskScore \/ RiskScore

RiskSpec == Init /\ [][RiskNext]_vars

\* The registry: add calls, then one query.

QueryNames == QualifiedNames \cup {"missing"}
Patterns == {"auth.*", "*.login", "auth.validate*", "a.*", "a??.*", "api.routes.login", "*"}

Add ==
    /\ Constructed
    /\ Len(added) < MaxAdds
    /\ \E symbol \in Symbols :
        /\ registry' = add(registry, symbol)
        /\ added' = Append(added, symbol)
    /\ UNCHANGED << graph, ret, disk, jobs, running, results >>

Get ==
    /\ Constructed
    /\ \E qualified_name \in QueryNames :
        ret' = Call("get", << qualified_name >>, get(registry, qualified_name))
    /\ UNCHANGED << graph, registry, added, disk, jobs, running, results >>

GetByLocation ==
    /\ Constructed
    /\ \E file \in Files, line \in Lines :
        ret' = Call("get_by_location", << file, line >>, get_by_location(registry, file, line))
    /\ UNCHANGED << graph, registry, added, disk, jobs, running, results >>

Search ==
    /\ Constructed
    /\ \E pattern \in Patterns :
        ret' = Call("search", << pattern >>, search(registry, pattern))
    /\ UNCHANGED << graph, registry, added, disk, jobs, running, results >>

GetAll ==
    /\ Constructed
    /\ ret' = Call("get_all", << >>, get_all(registry))
    /\ UNCHANGED << graph, registry, added, disk, jobs, running, results >>

RegistryLen ==
    /\ Constructed
    /\ ret' = Call("__len__", << >>, __len__(registry))
    /\ UNCHANGED << graph, registry, added, disk, jobs, running, results >>

RegistryContains ==
    /\ Constructed
    /\ \E qualified_name \in QueryNames :
        ret' = Call("__contains__", << qualified_name >>, __contains__(registry, qualified_name))
    /\ UNCHANGED << graph, registry, added, disk, jobs, running, results >>

RegistryNext ==
    Add \/ Get \/ GetByLocation \/ Search \/ GetAll \/ RegistryLen \/ RegistryContains

RegistrySpec == Init /\ [][RegistryNext]_vars

\* validate_code_map, as a function of the document.

Validate ==
    /\ Constructed
    /\ \E data \in Documents(SymbolsValues, DependenciesValues) :
        ret' = Call("validate_code_map", << data >>, validate_code_map(data))
    /\ UNCHANGED << graph, registry, added, disk, jobs, running, results >>

ValidateNext == Validate

ValidateSpec == Init /\ [][ValidateNext]_vars

\* Persistence: save and load in any order, on a disk where another program
\* (path.write_text in the tests) may leave a text of its own.

Save ==
    \E data \in PersistedDocuments, path \in Paths :
        /\ disk' = save(disk, data, path).disk
        /\ ret' = Call("save", << data, path >>, save(disk, data, path).outcome)
        /\ UNCHANGED << graph, registry, added, jobs, running, results >>

Load ==
    \E path \in Paths :
        /\ ret' = Call("load", << path >>, load(disk, path))
        /\ UNCHANGED << graph, registry, added, disk, jobs, running, results >>

WriteText ==
    \E path \in Paths, text \in Texts :
        /\ parent(path) \in disk.dirs
        /\ disk' = [disk EXCEPT !.files[path] = Some(text)]
        /\ ret' = NoQuery
        /\ UNCHANGED << graph, registry, added, jobs, running, results >>

PersistNext == Save \/ Load \/ WriteText

PersistSpec == Init /\ [][PersistNext]_vars

\* The round trip of test_load_roundtrip: a registry and a graph are built,
\* and the document generated from them is saved and loaded.
RoundTripSymbols ==
    {s \in Symbols :
        \/ s.qualified_name = "auth.validate_user" /\ s.location.file = "auth.py"
        \/ s.qualified_name = "api.routes.login" /\ s.location = [file |-> "api.py", line |-> 10]}
Timestamps == {"2024-01-01T00:00:00+00:00"}

Register ==
    /\ Constructed
    /\ Len(added) < MaxRegistered
    /\ \E symbol \in RoundTripSymbols :
        /\ registry' = add(registry, symbol)
        /\ added' = Append(added, symbol)
    /\ UNCHANGED << graph, ret, disk, jobs, running, results >>

Depend ==
    /\ Constructed
    /\ \E f \in AttrNames, t \in AttrNames, k \in Kinds, l \in {None, Some("f.py:1")} :
        /\ has_edge(graph, f, t) \/ Len(graph.edges) < MaxAttrEdges
        /\ graph' = add_dependency(graph, f, t, k, l)
    /\ UNCHANGED << ret, registry, added, disk, jobs, running, results >>

RoundTrip ==
    /\ Constructed
    /\ \E path \in Paths, timestamp \in Timestamps :
        \E original \in {generate(graph, registry, ".", timestamp)} :
            \E saved \in {save(disk, original, path)} :
                /\ disk' = saved.disk
                /\ ret' = Call("roundtrip", << path >>,
                               IF saved.outcome.raised # "" THEN saved.outcome
                               ELSE load(saved.disk, path))
    /\ UNCHANGED << graph, registry, added, jobs, running, results >>

RoundTripNext == Register \/ Depend \/ RoundTrip

RoundTripSpec == Init /\ [][RoundTripNext]_vars

\* The analysis service: jobs are created and run.  run_job has no await in
\* its body, so nothing else runs between its first line and its last; it is
\* taken in two steps, lines 175-181 and lines 183-289, so that the RUNNING
\* status shows.

CreateJob ==
    /\ running = None
    /\ \E job_id \in JobIds, repo_url \in RepoUrls, branch \in Branches, now \in Times :
          LET created == create_job(jobs, job_id, repo_url, branch, now)
          IN  /\ jobs' = created._jobs
              /\ ret' = Call("create_job", << repo_url, branch >>, created.job)
    /\ UNCHANGED << graph, registry, added, disk, running, results >>

\* run_job up to line 181: an unknown id is logged and the call returns; a
\* known job becomes RUNNING.
RunJob ==
    /\ running = None
    /\ \E job_id \in JobIds :
          LET job == get_job(jobs, job_id)
          IN  IF job = None
              THEN /\ ret' = Call("run_job", << job_id >>, None)
                   /\ UNCHANGED << jobs, running >>
              ELSE /\ jobs' = dict_set(jobs, job_id,
                                       [job[1] EXCEPT !.status = JobStatus.RUNNING])
                   /\ running' = Some(job_id)
                   /\ ret' = [Call("run_job", << job_id >>, None) EXCEPT !.returned = FALSE]
    /\ UNCHANGED << graph, registry, added, disk, results >>

\* run_job from line 183 on.
RunJobTry ==
    /\ running # None
    /\ \E fault \in Faults, now \in Times :
          LET job_id == running[1]
              done == run_job_try(get_job(jobs, job_id)[1], results[job_id], fault, now)
          IN  /\ jobs' = dict_set(jobs, job_id, done.job)
              /\ results' = [results EXCEPT ![job_id] = done.files]
              /\ ret' = [Call("run_job", << job_id >>, None)
                            EXCEPT !.returned = (done.raised = "")]
    /\ running' = None
    /\ UNCHANGED << graph, registry, added, disk >>

JobNext == CreateJob \/ RunJob \/ RunJobTry

JobSpec == Init /\ [][JobNext]_vars

----------------------------------------------------------------------------
\* Construction: C7, C8, C9 (under Spec).

EdgesBetween(g, u, v) ==
    {i \in 1..Len(g.edges) : g.edges[i].from = u /\ g.edges[i].to = v}

NoDuplicates(s) == \A i, j \in 1..Len(s) : s[i] = s[j] => i = j

\* C7 as stated: a second add_dependency call with the same arguments changes
\* nothing, and on a graph without the edge (from, to) the two calls leave
\* exactly one edge, with exactly one location entry.
C7_TwiceYieldsOneLocation ==
    \A f \in AttrNames, t \in AttrNames, k \in Kinds, l \in LocationArgs :
        LET g1 == add_dependency(graph, f, t, k, l)
            g2 == add_dependency(g1, f, t, k, l)
        IN  /\ g2 = g1
            /\ ~has_edge(graph, f, t) =>
                    /\ Cardinality(EdgesBetween(g2, f, t)) = 1
                    /\ Len(g2.edges[EdgeIndex(g2, f, t)].locations) = 1

\* C7 as amended: a second add_dependency call with the same arguments changes
\* nothing, and on a graph without the edge (from, to) the two calls leave
\* exactly one edge, whose location list holds the location once when one is
\* given and is empty when the location is None or the empty string.
C7_AddDependencyIdempotent ==
    \A f \in AttrNames, t \in AttrNames, k \in Kinds, l \in LocationArgs :
        LET g1 == add_dependency(graph, f, t, k, l)
            g2 == add_dependency(g1, f, t, k, l)
        IN  /\ g2 = g1
            /\ ~has_edge(graph, f, t) =>
                    /\ Cardinality(EdgesBetween(g2, f, t)) = 1
                    /\ g2.edges[EdgeIndex(g2, f, t)].kind = k
                    /\ g2.edges[EdgeIndex(g2, f, t)].locations =
                           (IF Truthy(l) THEN << l[1] >> ELSE << >>)

\* C7 witness: add_dependency has run, the graph is one edge a -> b carrying one
\* location, and the same call again is a no-op.
C7_Witness ==
    /\ graph.edges = << [from |-> "a", to |-> "b", kind |-> "calls",
                         locations |-> << "f.py:1" >>] >>
    /\ add_dependency(graph, "a", "b", "calls", Some("f.py:1")) = graph

\* C8: the graph holds at most one edge per ordered pair (from, to), and no
\* edge's location list holds the same location twice.
C8_OneEdgePerPair ==
    /\ \A i, j \in 1..Len(graph.edges) :
           (graph.edges[i].from = graph.edges[j].from
            /\ graph.edges[i].to = graph.edges[j].to) => i = j
    /\ \A i \in 1..Len(graph.edges) : NoDuplicates(graph.edges[i].locations)

\* C8 witness: two edges, one of them with both locations merged into it.
C8_Witness ==
    /\ Len(graph.edges) = 2
    /\ \E i \in 1..Len(graph.edges) : Len(graph.edges[i].locations) = 2

\* C9: both endpoints of every edge are nodes of the graph, and add_dependency
\* on any endpoints, known or not, yields a graph holding them and the edge.
C9_EndpointsAreNodes ==
    /\ \A i \in 1..Len(graph.edges) :
           has_node(graph, graph.edges[i].from) /\ has_node(graph, graph.edges[i].to)
    /\ \A f \in AttrNames, t \in AttrNames, k \in Kinds, l \in LocationArgs :
           LET g1 == add_dependency(graph, f, t, k, l)
           IN  has_node(g1, f) /\ has_node(g1, t) /\ has_edge(g1, f, t)

\* C9 witness: add_dependency has run and the graph holds an edge whose two
\* (distinct) endpoints are its nodes.
C9_Witness ==
    /\ graph.nodes = {"a", "b"}
    /\ has_edge(graph, "b", "a")

----------------------------------------------------------------------------
\* Traversal: C1 - C5 (under QuerySpec).

\* Reachability, from the edge relation alone: the nodes a path of 1..k edges
\* leads to from s (Forward) or leads to s from (Backward).
Pairs(g) == {<< g.edges[i].from, g.edges[i].to >> : i \in 1..Len(g.edges)}

RECURSIVE Forward(_, _, _)
Forward(g, s, k) ==
    IF k <= 0 THEN {}
    ELSE LET near == Forward(g, s, k - 1)
         IN  near \cup {p[2] : p \in {q \in Pairs(g) : q[1] \in near \cup {s}}}

RECURSIVE Backward(_, _, _)
Backward(g, s, k) ==
    IF k <= 0 THEN {}
    ELSE LET near == Backward(g, s, k - 1)
         IN  near \cup {p[1] : p \in {q \in Pairs(g) : q[2] \in near \cup {s}}}

\* No simple path has more edges than there are nodes.
Descendants(g, s) == Forward(g, s, Cardinality(g.nodes))
Ancestors(g, s) == Backward(g, s, Cardinality(g.nodes))

\* s lies on a cycle: some edge leaves s for a node that leads back to s.
OnCycle(g, s) ==
    \E p \in Pairs(g) : p[1] = s /\ (p[2] = s \/ s \in Descendants(g, p[2]))

IsQuery == ret.op \in {"get_callers", "get_callees"}
Symbol == ret.args[1]
Depth == ret.args[2]

\* C1: with depth=None, get_callers(symbol) returns exactly the nodes from
\* which symbol is reachable by a path of one or more edges and
\* get_callees(symbol) exactly the nodes reachable from it, so symbol is in its
\* own result if and only if it lies on a cycle.
C1_UnboundedIsClosure ==
    (IsQuery /\ Depth = None /\ has_node(graph, Symbol)) =>
        /\ ret.op = "get_callers" => Range(ret.value) = Ancestors(graph, Symbol)
        /\ ret.op = "get_callees" => Range(ret.value) = Descendants(graph, Symbol)
        /\ (Symbol \in Range(ret.value)) = OnCycle(graph, Symbol)

\* C1 witness: get_callers(symbol) with depth=None returned the symbol itself
\* and another node.
C1_Witness ==
    /\ ret.op = "get_callers" /\ Depth = None
    /\ Symbol \in Range(ret.value)
    /\ Len(ret.value) >= 2

\* C2: for depth d >= 1, get_callees(s, depth=d) returns exactly the nodes
\* reachable from s by a path of at least 1 and at most d edges.
C2_CalleesWithinDepth ==
    (ret.op = "get_callees" /\ Depth # None /\ has_node(graph, Symbol)) =>
        (Depth[1] >= 1 => Range(ret.value) = Forward(graph, Symbol, Depth[1]))

C4_DepthZeroIsEmpty ==
    (IsQuery /\ Depth = Some(0) /\ has_node(graph, Symbol)) => ret.value = << >>

\* The graph with every edge reversed, the edges in the same order.
Reversed(g) ==
    [nodes |-> g.nodes,
     edges |-> [i \in 1..Len(g.edges) |->
                   [g.edges[i] EXCEPT !.from = g.edges[i].to, !.to = g.edges[i].from]]]

Chain ==
    add_dependency(add_dependency(add_dependency(EmptyGraph,
        "a", "b", "calls", None), "b", "c", "calls", None), "c", "d", "calls", None)

----------------------------------------------------------------------------
\* Cycle detection: C6 (under QuerySpec).

\* The elementary cycles over exactly the nodes of S, from the edge relation
\* alone: the ways to put S on a ring, read from its least node, such that
\* every node has an edge to the next one and the last to the first.
RingsOf(g, S) ==
    LET n == Cardinality(S)
    IN  {p \in [1..n -> S] :
            /\ \A i, j \in 1..n : p[i] = p[j] => i = j
            /\ \A i \in 2..n : Rank(p[1]) < Rank(p[i])
            /\ \A i \in 1..n : << p[i], p[(i % n) + 1] >> \in Pairs(g)}

Occurrences(s, x) == Cardinality({i \in 1..Len(s) : s[i] = x})

TwoWayTriangle ==
    [nodes |-> {"a", "b", "c"},
     edges |-> << [from |-> "a", to |-> "b", kind |-> "calls", locations |-> << >>],
                  [from |-> "b", to |-> "c", kind |-> "calls", locations |-> << >>],
                  [from |-> "c", to |-> "a", kind |-> "calls", locations |-> << >>],
                  [from |-> "a", to |-> "c", kind |-> "calls", locations |-> << >>],
                  [from |-> "c", to |-> "b", kind |-> "calls", locations |-> << >>],
                  [from |-> "b", to |-> "a", kind |-> "calls", locations |-> << >>] >>]

\* C6: find_cycles returns one entry per elementary cycle of the graph, each
\* entry the sorted list of the cycle's nodes and the outer list sorted; it
\* returns [] if and only if the graph has no directed cycle (a self-loop is
\* one), and exactly [[a, b, c]] when the only edges are a -> b, b -> c, c -> a.
C6_FindCyclesElementary ==
    ret.op = "find_cycles" =>
        /\ \A S \in (SUBSET graph.nodes) \ {{}} :
               Occurrences(ret.value, sorted(S)) = Cardinality(RingsOf(graph, S))
        /\ \A i \in 1..Len(ret.value) : ret.value[i] = sorted(Range(ret.value[i]))
        /\ \A i, j \in 1..Len(ret.value) : i < j => ~LexLess(ret.value[j], ret.value[i])
        /\ (ret.value = << >>) = (\A n \in graph.nodes : ~OnCycle(graph, n))
        /\ Pairs(graph) = {<< "a", "b" >>, << "b", "c" >>, << "c", "a" >>}
               => ret.value = << << "a", "b", "c" >> >>
        /\ find_cycles(TwoWayTriangle)
               = << << "a", "b" >>, << "a", "b", "c" >>, << "a", "b", "c" >>,
                    << "a", "c" >>, << "b", "c" >> >>

\* C6 witness: find_cycles found a self-loop and a longer cycle.
C6_Witness ==
    /\ ret.op = "find_cycles"
    /\ Len(ret.value) >= 2
    /\ \E i, j \in 1..Len(ret.value) : Len(ret.value[i]) = 1 /\ Len(ret.value[j]) >= 2

----------------------------------------------------------------------------
\* Impact analysis: C10 (under ImpactSpec).

IsImpact == ret.op = "analyze_impact"
Changed == ret.args[1]

C11_TransitiveImpacts ==
    IsImpact =>
        LET max_depth == ret.args[2]
            depth == IF max_depth = None \/ max_depth = Some(0)
                     THEN None ELSE Some(max_depth[1] - 1)
            direct == Range(ret.value.direct_impacts)
            beyond == UNION {Range(get_callers(graph, c, depth)) : c \in direct}
        IN  /\ ret.value.transitive_impacts = sorted(beyond \ direct)
            /\ direct \cap Range(ret.value.transitive_impacts) = {}
            /\ ret.value.affected_symbols =
                   sorted(direct \cup Range(ret.value.transitive_impacts))

\* C11 witness: two changed symbols, both nodes, analysed in one call with a
\* bounded max_depth, where a direct impact has a caller of its own.
C11_Witness ==
    /\ IsImpact
    /\ ret.args[2] = Some(2)
    /\ Len(Changed) = 2
    /\ Changed[1] # Changed[2]
    /\ has_node(graph, Changed[1]) /\ has_node(graph, Changed[2])
    /\ \E c \in Range(ret.value.direct_impacts) :
          get_callers(graph, c, Some(1)) # << >>

\* C12: the report for a list of symbols is the report for the sub-list of
\* the symbols that are nodes of the graph; when none is a node, every
\* collection of the report is empty and risk_score is 0.
C12_MissingSymbolsIgnored ==
    IsImpact =>
        LET InGraph(symbol) == has_node(graph, symbol)
            present == SelectSeq(Changed, InGraph)
        IN  /\ ret.returned
            /\ ret.value = analyze_impact(graph, present, ret.args[2])
            /\ present = << >> =>
                   /\ ret.value.affected_symbols = << >>
                   /\ ret.value.affected_files = << >>
                   /\ ret.value.suggested_tests = << >>
                   /\ ret.value.direct_impacts = << >>
                   /\ ret.value.transitive_impacts = << >>
                   /\ ret.value.risk_score = 0

\* C12 witness: the first changed symbol is no node of a graph that has
\* edges, the second is one and has a caller, which the report holds.
C12_Witness ==
    /\ IsImpact
    /\ Len(Changed) = 2
    /\ ~has_node(graph, Changed[1])
    /\ has_node(graph, Changed[2])
    /\ ret.value.affected_symbols # << >>
    /\ ret.value.risk_score > 0

----------------------------------------------------------------------------
\* Risk score: C13, C14 (under RiskSpec).

IsRiskScore == ret.op = "risk_score"
IsCalculate == ret.op = "_calculate_risk_score"

\* The formula of the claim, with the reduction as an argument.
ClampedScore(affected, transitive, reduced) ==
    Max(0, Min(100, Min(50, 5 * Cardinality(affected)) + Min(30, 2 * transitive)
                    - (IF reduced THEN 10 ELSE 0)))

\* C13 as stated: the risk score is max(0, min(100, min(50, 5*|affected|) +
\* min(30, 2*|transitive|) - (10 if the name of an affected symbol contains
\* "test" else 0))), and lies in 0..100.
C13_RiskScoreContainsTest ==
    IsRiskScore =>
        /\ ret.value = ClampedScore(ret.args[1], ret.args[2],
                                    \E sym \in ret.args[1] : Contains("test", sym))
        /\ ret.value \in 0..100

\* C13, amended: the same formula, where a name counts when it contains
\* "test" in any mix of upper and lower case; the score lies in 0..100.
C13_RiskScoreFormula ==
    IsRiskScore =>
        /\ ret.value = ClampedScore(ret.args[1], ret.args[2],
                                    \E sym \in ret.args[1] : \E i \in 1..Len(sym) :
                                        /\ i + 3 <= Len(sym)
                                        /\ SubSeq(sym, i, i) \in {"t", "T"}
                                        /\ SubSeq(sym, i + 1, i + 1) \in {"e", "E"}
                                        /\ SubSeq(sym, i + 2, i + 2) \in {"s", "S"}
                                        /\ SubSeq(sym, i + 3, i + 3) \in {"t", "T"})
        /\ ret.value \in 0..100

\* C13 witness: both caps are passed (more than 10 affected symbols, more
\* than 15 transitive impacts) and the only name with "test" in it has it
\* capitalised: the score is 50 + 30 - 10.
C13_Witness ==
    /\ IsRiskScore
    /\ Cardinality(ret.args[1]) > 10
    /\ ret.args[2] > 15
    /\ "api.TestLogin" \in ret.args[1]
    /\ "test_auth.check" \notin ret.args[1]
    /\ ret.value = 70

\* C14 as stated: for a fixed affected set and transitive count, the score
\* with has_tests=True is strictly less than the score with has_tests=False.
C14_TestsStrictlyLower ==
    (IsCalculate /\ ret.args[3]) =>
        ret.value < _calculate_risk_score(ret.args[1], ret.args[2], FALSE)

\* C14, amended: the score with has_tests=True is strictly less than the
\* score with has_tests=False when the affected set is non-empty or the
\* transitive count is positive, and never more than it; with no affected
\* symbol and a transitive count of 0 both scores are 0.
C14_TestsLowerUnlessZero ==
    (IsCalculate /\ ret.args[3]) =>
        LET without == _calculate_risk_score(ret.args[1], ret.args[2], FALSE)
        IN  IF ret.args[1] # {} \/ ret.args[2] > 0
            THEN ret.value < without
            ELSE ret.value = 0 /\ without = 0

\* C14 witness: has_tests=True on one affected symbol and no transitive
\* impact, where the reduction is cut short at 0: 0 against 5.
C14_Witness ==
    /\ IsCalculate
    /\ ret.args[3]
    /\ Cardinality(ret.args[1]) = 1
    /\ ret.args[2] = 0
    /\ ret.value = 0
    /\ _calculate_risk_score(ret.args[1], ret.args[2], FALSE) = 5

----------------------------------------------------------------------------
\* Symbol registry: C15, C16, C17 (under RegistrySpec).

AddedUnder(qualified_name) ==
    {i \in 1..Len(added) : added[i].qualified_name = qualified_name}
LastAddedUnder(qualified_name) ==
    added[CHOOSE i \in AddedUnder(qualified_name) : \A j \in AddedUnder(qualified_name) : j <= i]

\* C15: after any sequence of add calls, len(registry) is the number of
\* distinct qualified names added, get(q) is the symbol added last under q,
\* and for a q never added get(q) is None and q in registry is false.
C15_LastInsertWins ==
    /\ ret.op = "__len__" =>
           ret.value = Cardinality({added[i].qualified_name : i \in 1..Len(added)})
    /\ ret.op = "get" =>
           IF AddedUnder(ret.args[1]) = {}
           THEN ret.value = None
           ELSE ret.value = Some(LastAddedUnder(ret.args[1]))
    /\ (ret.op = "__contains__" /\ AddedUnder(ret.args[1]) = {}) => ret.value = FALSE

\* C15 witness: of three symbols added, two go under one qualified name at
\* different places, and get returns the later one.
C15_Witness ==
    /\ ret.op = "get"
    /\ Len(added) = 3
    /\ \E i, j \in AddedUnder(ret.args[1]) :
          /\ i < j
          /\ added[i].location # added[j].location
          /\ ret.value = Some(added[j])
          /\ \A k \in AddedUnder(ret.args[1]) : k <= j

\* C16: every symbol that get_all returns is returned by get of its
\* qualified name and by get_by_location of its file and line.
C16_RetrievableByBothIndices ==
    ret.op = "get_all" =>
        \A i \in 1..Len(ret.value) :
            /\ get(registry, ret.value[i].qualified_name) = Some(ret.value[i])
            /\ get_by_location(registry, ret.value[i].location.file,
                               ret.value[i].location.line) = Some(ret.value[i])

\* A shell-style glob with at most one star, a character at a time: ? fits
\* any one character and every other character, the dot among them, fits
\* itself; the star takes what lies between the two ends.
Fits(piece, text) ==
    /\ Len(piece) = Len(text)
    /\ \A i \in 1..Len(piece) : SubSeq(piece, i, i) \in {"?", SubSeq(text, i, i)}
StarsOf(pattern) == {i \in 1..Len(pattern) : SubSeq(pattern, i, i) = "*"}
StartsWith(name, prefix) ==
    Len(name) >= Len(prefix) /\ SubSeq(name, 1, Len(prefix)) = prefix
EndsWith(name, suffix) ==
    Len(name) >= Len(suffix) /\ SubSeq(name, Len(name) - Len(suffix) + 1, Len(name)) = suffix
GlobMatches(name, pattern) ==
    IF StarsOf(pattern) = {} THEN Fits(pattern, name)
    ELSE LET star == CHOOSE i \in StarsOf(pattern) : TRUE
             before == star - 1
             after == Len(pattern) - star
         IN  /\ Len(name) >= before + after
             /\ Fits(SubSeq(pattern, 1, before), SubSeq(name, 1, before))
             /\ Fits(SubSeq(pattern, star + 1, Len(pattern)),
                     SubSeq(name, Len(name) - after + 1, Len(name)))

\* C17: search returns exactly the registered symbols whose qualified name
\* matches the glob, each once: for "auth.*" those whose name starts with
\* "auth.", for "*.login" those whose name ends with ".login", and the
\* empty list when no name matches.
C17_SearchIsGlob ==
    ret.op = "search" =>
        LET pattern == ret.args[1]
            registered == Range(get_all(registry))
            names(symbols) == {symbol.qualified_name : symbol \in symbols}
        IN  /\ Cardinality(StarsOf(pattern)) <= 1
            /\ Range(ret.value) =
                   {symbol \in registered : GlobMatches(symbol.qualified_name, pattern)}
            /\ NoDuplicates(ret.value)
            /\ pattern = "auth.*" =>
                   Range(ret.value) =
                       {symbol \in registered : StartsWith(symbol.qualified_name, "auth.")}
            /\ pattern = "*.login" =>
                   Range(ret.value) =
                       {symbol \in registered : EndsWith(symbol.qualified_name, ".login")}
            /\ (\A symbol \in registered : ~GlobMatches(symbol.qualified_name, pattern)) =>
                   ret.value = << >>

\* C17 witness: with the three qualified names registered, search("auth.*")
\* returns the two under auth and not the one under api.
C17_Witness ==
    /\ ret.op = "search"
    /\ ret.args[1] = "auth.*"
    /\ {symbol.qualified_name : symbol \in Range(get_all(registry))} = QualifiedNames
    /\ {symbol.qualified_name : symbol \in Range(ret.value)} =
           {"auth.validate_user", "auth.validate_token"}

----------------------------------------------------------------------------
\* Validation: C18 (under ValidateSpec).

IsListOfDictsWith(value, first_key, second_key) ==
    /\ isinstance(value, "list")
    /\ \A i \in 1..Len(value.val) :
          /\ isinstance(value.val[i], "dict")
          /\ {first_key, second_key} \subseteq keys(value.val[i])

Accepted(data) ==
    /\ isinstance(data, "dict")
    /\ {"version", "generated_at", "source_root", "symbols", "dependencies"} \subseteq keys(data)
    /\ IsListOfDictsWith(data.val["symbols"], "qualified_name", "kind")
    /\ IsListOfDictsWith(data.val["dependencies"], "from_sym", "to_sym")

HasEntry(value, Test(_)) == \E i \in 1..Len(value.val) : Test(value.val[i])
NoDict(entry) == ~isinstance(entry, "dict")
NoSymbolKeys(entry) ==
    isinstance(entry, "dict") /\ ~({"qualified_name", "kind"} \subseteq keys(entry))
NoDependencyKeys(entry) ==
    isinstance(entry, "dict") /\ ~({"from_sym", "to_sym"} \subseteq keys(entry))

\* C18: validate_code_map accepts a document if and only if it is a dict
\* with the five top-level keys whose symbols is a list of dicts that have
\* qualified_name and kind, and whose dependencies is a list of dicts that
\* have from_sym and to_sym; a rejection comes with a reason, and the
\* requirement the reason names is one that the document fails.
C18_ValidateAcceptsIff ==
    ret.op = "validate_code_map" =>
        LET data == ret.args[1]
            reason == ret.value.error_msg
        IN  /\ ret.value.is_valid <=> Accepted(data)
            /\ ret.value.is_valid => reason = << >>
            /\ ~ret.value.is_valid =>
                   CASE reason[1] = "Code map must be a dictionary" ->
                            ~isinstance(data, "dict")
                     [] reason[1] = "Missing required fields: " ->
                            /\ reason[2] # {}
                            /\ reason[2] = {"version", "generated_at", "source_root",
                                            "symbols", "dependencies"} \ keys(data)
                     [] reason[1] = "symbols must be a list" ->
                            ~isinstance(data.val["symbols"], "list")
                     [] reason[1] = "Each symbol must be a dictionary" ->
                            HasEntry(data.val["symbols"], NoDict)
                     [] reason[1] = "Each symbol must have qualified_name and kind" ->
                            HasEntry(data.val["symbols"], NoSymbolKeys)
                     [] reason[1] = "dependencies must be a list" ->
                            ~isinstance(data.val["dependencies"], "list")
                     [] reason[1] = "Each dependency must be a dictionary" ->
                            HasEntry(data.val["dependencies"], NoDict)
                     [] reason[1] = "Each dependency must have from_sym and to_sym" ->
                            HasEntry(data.val["dependencies"], NoDependencyKeys)
                     [] OTHER -> FALSE

\* C18 witness: a document with the five keys and two good symbols is
\* rejected for its second dependency, which has no to_sym.
C18_Witness ==
    /\ ret.op = "validate_code_map"
    /\ ~ret.value.is_valid
    /\ ret.value.error_msg = << "Each dependency must have from_sym and to_sym" >>
    /\ IsListOfDictsWith(ret.args[1].val["symbols"], "qualified_name", "kind")
    /\ Len(ret.args[1].val["symbols"].val) = 2
    /\ ret.args[1].val["dependencies"].val = << Entry({"from_sym", "to_sym"}), Entry({"from_sym"}) >>

----------------------------------------------------------------------------
\* Persistence: C19, C20 (under PersistSpec).

\* A document with a symbol entry that has no file or no line.
LacksFileOrLine(data) ==
    /\ isinstance(data, "dict")
    /\ "symbols" \in keys(data)
    /\ isinstance(data.val["symbols"], "list")
    /\ \E i \in 1..Len(data.val["symbols"].val) :
          /\ isinstance(data.val["symbols"].val[i], "dict")
          /\ ~({"file", "line"} \subseteq keys(data.val["symbols"].val[i]))

\* C19: a persisted document in which a symbol entry lacks file or line is
\* rejected by validation, and load does not return it.
C19_SymbolsRequireFileAndLine ==
    (/\ ret.op = "load"
     /\ exists(disk, ret.args[1])
     /\ IsJson(disk.files[ret.args[1]][1])
     /\ LacksFileOrLine(loads(disk.files[ret.args[1]][1]))) =>
        /\ ~validate_code_map(loads(disk.files[ret.args[1]][1])).is_valid
        /\ ret.value.raised = "ValueError"

\* C20: a load raises (FileNotFoundError when the file is not there, an
\* error when its text is no JSON or fails validate_code_map) or returns
\* the whole document of the file, which passes validate_code_map; a save
\* of a document that fails validate_code_map raises ValueError and leaves
\* the directories and the files as they were.
C20_PersistenceBoundary ==
    [][/\ ret'.op = "load" =>
              LET path == ret'.args[1]
                  outcome == ret'.value
              IN  /\ disk' = disk
                  /\ outcome.raised = "FileNotFoundError" <=> ~exists(disk, path)
                  /\ outcome.raised = "JSONDecodeError" <=>
                         (exists(disk, path) /\ ~IsJson(disk.files[path][1]))
                  /\ outcome.raised = "ValueError" <=>
                         /\ exists(disk, path)
                         /\ IsJson(disk.files[path][1])
                         /\ ~validate_code_map(loads(disk.files[path][1])).is_valid
                  /\ outcome.raised \in {"", "FileNotFoundError", "JSONDecodeError", "ValueError"}
                  /\ outcome.raised = "" =>
                         /\ validate_code_map(outcome.value).is_valid
                         /\ dumps(outcome.value) = disk.files[path][1]
       /\ (ret'.op = "save" /\ ~validate_code_map(ret'.args[1]).is_valid) =>
              /\ ret'.value.raised = "ValueError"
              /\ disk' = disk
      ]_vars

\* C20 witness: a save of the invalid map of the tests under a directory
\* that is not there has raised ValueError, and neither the directory nor
\* the file is there.
C20_Witness ==
    /\ ret.op = "save"
    /\ ret.args = << VersionOnly, "out/CODE_MAP.json" >>
    /\ ret.value.raised = "ValueError"
    /\ "out" \notin disk.dirs
    /\ ~exists(disk, "out/CODE_MAP.json")

----------------------------------------------------------------------------
\* C22 and C29: the frame of the construction calls (graph.py:25-75, 189-200).

\* symbol_data that the ingestion path is said to skip: no qualified_name key,
\* or a qualified_name that is not a string.
BadSymbolData ==
    {d \in SymbolDataArgs :
        "qualified_name" \notin DOMAIN d \/ d.qualified_name.type # "str"}

\* C22: add_symbol_data skips bad input: a map without a qualified_name key, or
\* whose qualified_name is not a string, adds no node and leaves the nodes and
\* the edges of the graph as they were.
C22_BadInputSkipped ==
    \A d \in BadSymbolData : add_symbol_data(graph, d) = graph

\* The edge (u, v) of a graph that has it.
EdgeOf(g, u, v) == g.edges[EdgeIndex(g, u, v)]

\* Every node and every edge of g is still in h, each edge with its endpoints
\* and kind, and with every location it carried.
NothingRemoved(g, h) ==
    /\ g.nodes \subseteq h.nodes
    /\ \A i \in 1..Len(g.edges) :
          LET e == g.edges[i]
          IN  /\ has_edge(h, e.from, e.to)
              /\ EdgeOf(h, e.from, e.to).kind = e.kind
              /\ Range(e.locations) \subseteq Range(EdgeOf(h, e.from, e.to).locations)

\* C29: the kind of an edge is fixed by the add_dependency call that creates
\* it: a later add_dependency on the same (from, to), whatever its kind, leaves
\* the kind unchanged and only merges the new location, and leaves every other
\* edge alone; no add_symbol, add_dependency or add_symbol_data call removes a
\* node or an edge.
C29_KindFixedNothingRemoved ==
    /\ \A f \in AttrNames, t \in AttrNames, k \in Kinds, l \in LocationArgs :
          LET h == add_dependency(graph, f, t, k, l)
          IN  /\ NothingRemoved(graph, h)
              /\ has_edge(graph, f, t) =>
                    /\ h.nodes = graph.nodes
                    /\ Len(h.edges) = Len(graph.edges)
                    /\ \A i \in 1..Len(graph.edges) :
                          /\ h.edges[i].from = graph.edges[i].from
                          /\ h.edges[i].to = graph.edges[i].to
                          /\ h.edges[i].kind = graph.edges[i].kind
                          /\ i # EdgeIndex(graph, f, t) => h.edges[i] = graph.edges[i]
                    /\ Range(EdgeOf(h, f, t).locations) =
                           Range(EdgeOf(graph, f, t).locations)
                           \cup (IF Truthy(l) THEN {l[1]} ELSE {})
    /\ \A n \in AttrNames : NothingRemoved(graph, add_symbol(graph, n))
    /\ \A d \in SymbolDataArgs : NothingRemoved(graph, add_symbol_data(graph, d))

\* C29 witness: the edge a -> b was created as an import and has been given a
\* second location; another add_dependency on it, as a call, leaves it an import
\* and adds nothing but its location.
C29_Witness ==
    /\ has_edge(graph, "a", "b")
    /\ EdgeOf(graph, "a", "b").kind = "imports"
    /\ EdgeOf(graph, "a", "b").locations = << "f.py:1" >>
    /\ LET h == add_dependency(graph, "a", "b", "calls", Some("f.py:2"))
       IN  /\ EdgeOf(h, "a", "b").kind = "imports"
           /\ EdgeOf(h, "a", "b").locations = << "f.py:1", "f.py:2" >>

----------------------------------------------------------------------------
\* C23 and C24: what max_depth and the transitive pass contribute to a report
\* (impact.py:77-99, 108-113).

----------------------------------------------------------------------------
\* C25, C26, C27: bounded queries against each other (graph.py:104-166).

\* C27: the depth bound is never exceeded: for d >= 0 every node of
\* get_callees(s, d) is reachable from s by a path of at most d edges and every
\* node of get_callers(s, d) reaches s by a path of at most d + 1 edges, and
\* both results are subsets of the result with depth=None.
C27_DepthBoundRespected ==
    (IsQuery /\ Depth # None /\ Depth[1] >= 0) =>
        /\ ret.returned
        /\ ret.op = "get_callees" =>
              /\ Range(ret.value) \subseteq Forward(graph, Symbol, Depth[1])
              /\ Range(ret.value) \subseteq Range(get_callees(graph, Symbol, None))
        /\ ret.op = "get_callers" =>
              /\ Range(ret.value) \subseteq Backward(graph, Symbol, Depth[1] + 1)
              /\ Range(ret.value) \subseteq Range(get_callers(graph, Symbol, None))

\* C27 witness: on a graph where a node lies three edges from the symbol, a
\* query of depth 2 has returned a node two edges away and left out the node
\* three edges away.
C27_Witness ==
    /\ ret.op = "get_callees"
    /\ Depth = Some(2)
    /\ Forward(graph, Symbol, 3) # Forward(graph, Symbol, 2)
    /\ Range(ret.value) = Forward(graph, Symbol, 2)
    /\ Forward(graph, Symbol, 2) # Forward(graph, Symbol, 1)

\* The graphs that the add_dependency calls behind g build when they are made
\* in another order: the same nodes and edges, the edges in any order.
Orders(n) == {p \in [1..n -> 1..n] : \A i, j \in 1..n : p[i] = p[j] => i = j}

Reordered(g) ==
    {[nodes |-> g.nodes, edges |-> [i \in 1..Len(g.edges) |-> g.edges[p[i]]]] :
        p \in Orders(Len(g.edges))}

\* C26: a query result depends on the edge set only, not on the order of the
\* add_dependency calls: two graphs built from the same edges in different
\* orders return identical get_callers and get_callees lists for every symbol
\* and every depth, bounded or None.
C26_OrderIndependent ==
    IsQuery =>
        \A h \in Reordered(graph) :
            /\ ret.op = "get_callers" => get_callers(h, Symbol, Depth) = ret.value
            /\ ret.op = "get_callees" => get_callees(h, Symbol, Depth) = ret.value

\* C25: raising the depth never removes results: for d >= 0,
\* get_callees(s, d) is a subset of get_callees(s, d + 1) and get_callers(s, d)
\* a subset of get_callers(s, d + 1).
C25_DepthMonotone ==
    (IsQuery /\ Depth # None /\ Depth[1] >= 0) =>
        /\ ret.op = "get_callees" =>
              Range(ret.value) \subseteq
                  Range(get_callees(graph, Symbol, Some(Depth[1] + 1)))
        /\ ret.op = "get_callers" =>
              Range(ret.value) \subseteq
                  Range(get_callers(graph, Symbol, Some(Depth[1] + 1)))

----------------------------------------------------------------------------
\* C28: the location index (symbols.py:49-62, 90-100).

\* C28: the location index never goes stale: after any sequence of add calls,
\* re-adding a name at another location included, every symbol s that
\* get_by_location(file, line) returns is the symbol that get of its qualified
\* name returns, and its location is (file, line).
C28_LocationIndexFresh ==
    (ret.op = "get_by_location" /\ ret.value # None) =>
        LET s == ret.value[1]
        IN  /\ get(registry, s.qualified_name) = Some(s)
            /\ s.location = [file |-> ret.args[1], line |-> ret.args[2]]

----------------------------------------------------------------------------
\* C30: the status of a job (api/jobs.py:71-100, 160-289).

Terminal == {JobStatus.COMPLETED, JobStatus.FAILED}

\* Every job but the one under job_id is what it was.
OtherJobsKept(job_id) ==
    \A other \in JobIds \ {job_id} : get_job(jobs', other) = get_job(jobs, other)

\* C30: a job's status moves PENDING -> RUNNING -> COMPLETED or FAILED:
\* create_job yields a PENDING job; run_job makes an existing job RUNNING, and
\* whenever it returns for an existing job, on the success path and on every
\* failure path (git clone error, git missing, an exception of the analysis or
\* of the output), the status is COMPLETED or FAILED, completed_at is set, and
\* a FAILED job carries an error message; run_job on an unknown job id changes
\* no job.  A job leaves PENDING only for RUNNING and becomes COMPLETED or
\* FAILED only from RUNNING.
C30_JobLifecycle ==
    [][ /\ ret'.op = "create_job" =>
              /\ ret'.value.status = JobStatus.PENDING
              /\ ret'.value.completed_at = None /\ ret'.value.error = None
              /\ get_job(jobs', ret'.value.id) = Some(ret'.value)
              /\ OtherJobsKept(ret'.value.id)
        /\ (running = None /\ running' # None) =>
              /\ get_job(jobs, running'[1]) # None
              /\ get_job(jobs', running'[1]) =
                     Some([get_job(jobs, running'[1])[1] EXCEPT !.status = JobStatus.RUNNING])
              /\ OtherJobsKept(running'[1])
        /\ (running # None) =>
              LET before == get_job(jobs, running[1])[1]
                  job == get_job(jobs', running[1])[1]
              IN  /\ before.status = JobStatus.RUNNING
                  /\ running' = None
                  /\ ret'.op = "run_job" /\ ret'.args = << running[1] >>
                  /\ OtherJobsKept(running[1])
                  /\ ret'.returned =>
                        /\ job.status \in Terminal
                        /\ job.completed_at # None
                        /\ job.status = JobStatus.FAILED =>
                              /\ job.error # None
                              /\ Len(job.error[1]) = 2 /\ job.error[1][1] # ""
        /\ (running = None /\ ret'.op = "run_job"
               /\ get_job(jobs, ret'.args[1]) = None) =>
              /\ ret'.returned
              /\ jobs' = jobs /\ results' = results /\ running' = None
        /\ \A job_id \in JobIds :
              (get_job(jobs, job_id) # None /\ get_job(jobs', job_id) # None) =>
                  LET status == get_job(jobs, job_id)[1].status
                      next == get_job(jobs', job_id)[1].status
                  IN  /\ (status = JobStatus.PENDING /\ next # status) =>
                             next = JobStatus.RUNNING
                      /\ (next \in Terminal /\ next # status) =>
                             status = JobStatus.RUNNING
      ]_vars

\* C30 witness: run_job has returned for a job whose analysis raised: the job
\* is FAILED with completed_at set, the message of the last except clause and
\* the result directory made before the analysis, while another job is still
\* PENDING.
C30_Witness ==
    /\ ret.op = "run_job" /\ ret.returned /\ running = None
    /\ get_job(jobs, ret.args[1]) # None
    /\ LET job == get_job(jobs, ret.args[1])[1]
       IN  /\ job.status = JobStatus.FAILED
           /\ job.completed_at # None
           /\ job.error = Some(<< "Analysis failed: ", "[Errno 2] No such file or directory" >>)
           /\ job.result_path = Some(ResultDir(job.id))
           /\ results[job.id] = Some({})
    /\ \E other \in JobIds \ {ret.args[1]} :
          /\ get_job(jobs, other) # None
          /\ get_job(jobs, other)[1].status = JobStatus.PENDING

----------------------------------------------------------------------------
\* C21: the round trip through a file (code_map.py:27-183).

IsRoundTrip == ret.op = "roundtrip"

StrictlyIncreasing(ranks) == \A i, j \in 1..Len(ranks) : i < j => ranks[i] < ranks[j]

\* C21: for a graph and a registry, load(save(generate(graph, registry)))
\* reproduces the registry's symbols, each by qualified name, kind, file and
\* line, and the graph's edges, each by from, to and kind; the symbols come
\* ordered by qualified name and the dependencies by (from, to).
C21_RoundTrip ==
    IsRoundTrip =>
        /\ ret.value.raised = ""
        /\ LET loaded == ret.value.value
               symbols == loaded.val["symbols"].val
               dependencies == loaded.val["dependencies"].val
               registered == get_all(registry)
           IN  /\ loaded.type = "dict"
               /\ Len(symbols) = Len(registered)
               /\ {<< e.val["qualified_name"], e.val["kind"], e.val["file"], e.val["line"] >> :
                      e \in Range(symbols)}
                  = {<< Str(s.qualified_name), Str(s.kind), Str(s.location.file),
                        IntValue(s.location.line) >> : s \in Range(registered)}
               /\ StrictlyIncreasing([i \in 1..Len(symbols) |-> QualifiedNameRank(symbols[i])])
               /\ Len(dependencies) = Len(graph.edges)
               /\ {<< e.val["from_sym"], e.val["to_sym"], e.val["kind"] >> :
                      e \in Range(dependencies)}
                  = {<< Str(e.from), Str(e.to), Str(e.kind) >> : e \in Range(graph.edges)}
               /\ StrictlyIncreasing([i \in 1..Len(dependencies) |->
                                         EndpointsRank(dependencies[i])])

\* C21 witness: a round trip has returned for a registry that holds two
\* symbols, the later name added first, and a graph of two edges of different
\* kinds, the later pair added first and one of them with a location.
C21_Witness ==
    /\ IsRoundTrip
    /\ ret.value.raised = ""
    /\ Len(get_all(registry)) = 2
    /\ get_all(registry)[1].qualified_name = "auth.validate_user"
    /\ get_all(registry)[2].qualified_name = "api.routes.login"
    /\ Len(graph.edges) = 2
    /\ graph.edges[1].from = "b" /\ graph.edges[1].to = "a" /\ graph.edges[1].kind = "imports"
    /\ graph.edges[2].from = "a" /\ graph.edges[2].to = "b" /\ graph.edges[2].kind = "calls"
    /\ graph.edges[2].locations = << "f.py:1" >>
    /\ ret.value.value.val["symbols"].val[1].val["qualified_name"] = Str("api.routes.login")
    /\ ret.value.value.val["dependencies"].val[1].val["kind"] = Str("calls")

====
